---- MODULE Spec2Model ----
(***************************************************************************)
(* Firestore collection profiling: the schema inferrer                     *)
(* (scripts/inferSchema.js) and the collection linter                      *)
(* (scripts/lintCollectionSchema.js).                                      *)
(*                                                                         *)
(* Values are records tagged with their JavaScript runtime type (js).      *)
(* A number n is kept as its count of halves (n = halves / 2), so that     *)
(* Number.isInteger is a computation on the value.  A plain object is the  *)
(* sequence of the entries <<key, value>> it was written with; its own     *)
(* enumerable entries (Object.entries) are the array-index keys in         *)
(* ascending order followed by the other keys in insertion order.  A Map   *)
(* is the sequence of its entries in insertion order.  A property whose    *)
(* value is undefined is left out of the record that holds it (toYAML      *)
(* drops such keys).  Strings are over ISO 8859-1.                         *)
(***************************************************************************)
EXTENDS Integers, Sequences, FiniteSets, TLC

(* ------------------------------ bounds ------------------------------ *)
MaxDocs == 3
MaxSumCalls == 2
MaxScenarioSeen == 5
MaxOrderDocs == 2
MaxSeen == 2
MaxCollection == 3
MaxThresholdDocs == 3
MaxProbeLen == 1
MaxScanDocs == 4
MaxWidth == 2
MaxDepth == 2

(* ------------------------------ values ------------------------------ *)
JsNull == [js |-> "null"]
JsBool(b) == [js |-> "boolean", b |-> b]
JsNum(h) == [js |-> "number", halves |-> h]
JsStr(s) == [js |-> "string", s |-> s]
JsTimestamp == [js |-> "Timestamp"]
JsGeoPoint == [js |-> "GeoPoint"]
JsRef == [js |-> "DocumentReference"]
JsBuffer == [js |-> "Buffer"]
JsDate == [js |-> "Date"]
JsArr(els) == [js |-> "Array", els |-> els]
JsObj(entries) == [js |-> "Object", entries |-> entries]
JsUndefined == [js |-> "undefined"]
JsUint8Array == [js |-> "Uint8Array"]
JsFunction == [js |-> "Function"]
JsSymbol == [js |-> "symbol"]
JsBigInt == [js |-> "bigint"]
JsMap == [js |-> "Map"]
JsNaN == [js |-> "number", halves |-> 1, nan |-> TRUE]

typeOf(v) ==
  CASE v.js = "string" -> "string"
    [] v.js = "boolean" -> "boolean"
    [] v.js = "number" -> "number"
    [] v.js = "undefined" -> "undefined"
    [] v.js = "Function" -> "function"
    [] v.js = "symbol" -> "symbol"
    [] v.js = "bigint" -> "bigint"
    [] OTHER -> "object"

isPlainObject(v) == v.js \in {"Object", "Timestamp", "GeoPoint", "DocumentReference"}

NumberIsInteger(v) == v.js = "number" /\ v.halves % 2 = 0

\* the kinds a classifier names
Kinds ==
  { "null", "boolean", "number", "string", "timestamp", "geopoint", "reference",
    "bytes", "array", "object", "unknown" }

\* detectKind of lintCollectionSchema.js, which binds `admin` to firebase-admin
\* at its line 15.
detectKind(v) ==
  IF v.js = "null" THEN "null"
  ELSE IF v.js = "Timestamp" THEN "timestamp"
  ELSE IF v.js = "GeoPoint" THEN "geopoint"
  ELSE IF v.js = "DocumentReference" THEN "reference"
  ELSE IF v.js \in {"Buffer", "Uint8Array"} THEN "bytes"
  ELSE IF v.js = "Array" THEN "array"
  ELSE IF typeOf(v) = "string" THEN "string"
  ELSE IF typeOf(v) = "boolean" THEN "boolean"
  ELSE IF typeOf(v) = "number" THEN "number"
  ELSE IF isPlainObject(v) THEN "object"
  ELSE "unknown"

(* --------------------- own keys of plain objects --------------------- *)
Digits == {"0", "1", "2", "3", "4", "5", "6", "7", "8", "9"}

Ch(str, i) == SubSeq(str, i, i)

\* the digit a decimal character stands for
DigitValue(c) ==
  CASE c = "0" -> 0 [] c = "1" -> 1 [] c = "2" -> 2 [] c = "3" -> 3 [] c = "4" -> 4
    [] c = "5" -> 5 [] c = "6" -> 6 [] c = "7" -> 7 [] c = "8" -> 8 [] OTHER -> 9

\* a < b for two decimal numerals without leading zeros
numeralLess(a, b) ==
  \/ Len(a) < Len(b)
  \/ /\ Len(a) = Len(b)
     /\ \E i \in 1..Len(a) :
          /\ \A j \in 1..(i - 1) : Ch(a, j) = Ch(b, j)
          /\ DigitValue(Ch(a, i)) < DigitValue(Ch(b, i))

\* the property keys a JavaScript object keeps as array indices: the decimal
\* numerals of 0 .. 2^32 - 2 without leading zeros
isArrayIndex(key) ==
  /\ Len(key) >= 1
  /\ Len(key) <= 10
  /\ \A i \in 1..Len(key) : Ch(key, i) \in Digits
  /\ (Ch(key, 1) = "0" => Len(key) = 1)
  /\ ~numeralLess("4294967294", key)

\* where a new key goes among the own keys of an object: array indices come
\* first in ascending numeric order, every other key follows in insertion order
keyPosition(out, key) ==
  IF ~isArrayIndex(key) THEN Len(out) + 1
  ELSE LET later == { i \in 1..Len(out) :
                       ~isArrayIndex(out[i][1]) \/ numeralLess(key, out[i][1]) }
       IN IF later = {} THEN Len(out) + 1
          ELSE CHOOSE i \in later : \A j \in later : i <= j

\* Object.defineProperty-like creation of an own property (object literals
\* with computed keys, JSON.parse, decoded documents): an existing key keeps
\* its place, a new one goes to keyPosition
defineKey(out, key, value) ==
  LET hits == { i \in 1..Len(out) : out[i][1] = key }
      at == keyPosition(out, key)
  IN IF hits # {}
     THEN [i \in 1..Len(out) |-> IF i \in hits THEN <<key, value>> ELSE out[i]]
     ELSE SubSeq(out, 1, at - 1) \o << <<key, value>> >> \o SubSeq(out, at, Len(out))

\* out[key] = value on a plain object kept as its own entries <<key, value>>:
\* "__proto__" reaches the accessor inherited from Object.prototype and makes
\* no own property
setKey(out, key, value) ==
  IF key = "__proto__" THEN out ELSE defineKey(out, key, value)

RECURSIVE ownEntries(_, _, _)
\* Object.entries(obj) of an object whose properties were created in the
\* order of entries, from entry i on
ownEntries(entries, i, out) ==
  IF i > Len(entries) THEN out
  ELSE ownEntries(entries, i + 1, defineKey(out, entries[i][1], entries[i][2]))

ObjectEntries(obj) == ownEntries(obj.entries, 1, <<>>)

(* ---------------------------- aggregates ---------------------------- *)
makeFieldAgg == [presentCount |-> 0, variants |-> <<>>]
makeObjectAgg == [totalSeen |-> 0, properties |-> <<>>]
makeArrayAgg == [totalSeen |-> 0, emptyCount |-> 0, items |-> <<>>]

\* Array.prototype.find / Map.prototype.get: the index of the first match, 0 when none
variantIndex(fieldAgg, kind) ==
  LET hits == {i \in 1..Len(fieldAgg.variants) : fieldAgg.variants[i].kind = kind}
  IN IF hits = {} THEN 0 ELSE CHOOSE i \in hits : \A j \in hits : i <= j

propertyIndex(objAgg, k) ==
  LET hits == {i \in 1..Len(objAgg.properties) : objAgg.properties[i].k = k}
  IN IF hits = {} THEN 0 ELSE CHOOSE i \in hits : \A j \in hits : i <= j

newVariant(kind) ==
  IF kind = "object" THEN [kind |-> kind, count |-> 0, object |-> makeObjectAgg]
  ELSE IF kind = "array" THEN [kind |-> kind, count |-> 0, array |-> makeArrayAgg]
  ELSE IF kind = "number" THEN [kind |-> kind, count |-> 0, number |-> [integerOnly |-> TRUE]]
  ELSE [kind |-> kind, count |-> 0]

getOrCreateVariant(fieldAgg, kind) ==
  IF variantIndex(fieldAgg, kind) = 0
  THEN [fieldAgg EXCEPT !.variants = Append(@, newVariant(kind))]
  ELSE fieldAgg

seeObject(oa) == [oa EXCEPT !.totalSeen = @ + 1]

noteNumber(num, value) ==
  IF ~NumberIsInteger(value) THEN [num EXCEPT !.integerOnly = FALSE] ELSE num

getOrCreateProperty(oa, k) ==
  IF propertyIndex(oa, k) = 0
  THEN [oa EXCEPT !.properties = Append(@, [k |-> k, fa |-> makeFieldAgg])]
  ELSE oa

\* inferSchema.js requires only { db } (line 6): the name `admin` that its
\* PROJECT_ID initializer (lines 18-19) and its detectKind (lines 29-31) read
\* is bound nowhere in the file. Its detectKind has the text of the linter's
\* classifier; "v instanceof admin.firestore.Timestamp" (line 29) throws
\* ReferenceError for every value that line 28 has not returned "null" for.
detectKindThrows(v) == v.js # "null"

\* The aggregator mutates the aggregate it is given and may throw half-way.
\* Each operator gives the aggregate as the call leaves it (v) and whether
\* the call threw.
RECURSIVE addValueSample(_, _)
RECURSIVE addEntries(_, _, _)
RECURSIVE addElements(_, _, _)

\* the loop "for (const [k, v] of Object.entries(value))" from entry i on
addEntries(oa, entries, i) ==
  IF i > Len(entries) THEN [v |-> oa, threw |-> FALSE]
  ELSE LET k == entries[i][1]
           oa1 == getOrCreateProperty(oa, k)
           j == propertyIndex(oa1, k)
           r == addValueSample(oa1.properties[j].fa, entries[i][2])
           oa2 == [oa1 EXCEPT !.properties[j].fa = r.v]
       IN IF r.threw THEN [v |-> oa2, threw |-> TRUE]
          ELSE addEntries(oa2, entries, i + 1)

\* the loop "for (const el of value) addValueSample(aa.items, el)" from element i on
addElements(items, els, i) ==
  IF i > Len(els) THEN [v |-> items, threw |-> FALSE]
  ELSE LET r == addValueSample(items, els[i])
       IN IF r.threw THEN r ELSE addElements(r.v, els, i + 1)

\* case "array"
addArray(aa, value) ==
  LET aa1 == [aa EXCEPT !.totalSeen = @ + 1]
  IN IF Len(value.els) = 0
     THEN [v |-> [aa1 EXCEPT !.emptyCount = @ + 1], threw |-> FALSE]
     ELSE LET items == IF aa1.items = <<>> THEN makeFieldAgg ELSE aa1.items[1]
              r == addElements(items, value.els, 1)
          IN [v |-> [aa1 EXCEPT !.items = <<r.v>>], threw |-> r.threw]

\* presentCount++ comes before detectKind(value): a throw of detectKind leaves
\* the sample counted and no variant touched
addValueSample(fieldAgg, value) ==
  LET seen == [fieldAgg EXCEPT !.presentCount = @ + 1]
  IN IF detectKindThrows(value) THEN [v |-> seen, threw |-> TRUE]
     ELSE LET kind == detectKind(value)
              fa1 == getOrCreateVariant(seen, kind)
              i == variantIndex(fa1, kind)
              counted == [fa1.variants[i] EXCEPT !.count = @ + 1]
              inner ==
                CASE kind = "object" ->
                       addEntries(seeObject(counted.object), ObjectEntries(value), 1)
                  [] kind = "array" -> addArray(counted.array, value)
                  [] OTHER -> [v |-> counted, threw |-> FALSE]
              variant ==
                CASE kind = "object" -> [counted EXCEPT !.object = inner.v]
                  [] kind = "array" -> [counted EXCEPT !.array = inner.v]
                  [] kind = "number" -> [counted EXCEPT !.number = noteNumber(@, value)]
                  [] OTHER -> counted
          IN [v |-> [fa1 EXCEPT !.variants[i] = variant], threw |-> inner.threw]

addObjectSample(objAgg, obj) ==
  addEntries(seeObject(objAgg), ObjectEntries(obj), 1)

(* ------------------------ dictionary heuristic ----------------------- *)
ScalarKinds == {"boolean", "string", "number"}

maybeAsMapNoEmptyCheck(objAgg) ==
  LET props == objAgg.properties
      total == objAgg.totalSeen
  IN IF \E i \in 1..Len(props) : props[i].fa.presentCount = total THEN "null"
     ELSE IF \E i \in 1..Len(props) :
               \/ Len(props[i].fa.variants) # 1
               \/ props[i].fa.variants[1].kind \notin ScalarKinds
          THEN "null"
     ELSE IF Len(props) = 0 THEN "boolean"
     ELSE LET first == props[1].fa.variants[1].kind
          IN IF \A i \in 1..Len(props) : props[i].fa.variants[1].kind = first
             THEN first ELSE "null"

maybeAsMapNoStableCheck(objAgg) ==
  LET props == objAgg.properties
  IN IF Len(props) = 0 THEN "null"
     ELSE IF \E i \in 1..Len(props) :
               \/ Len(props[i].fa.variants) # 1
               \/ props[i].fa.variants[1].kind \notin ScalarKinds
          THEN "null"
     ELSE LET first == props[1].fa.variants[1].kind
          IN IF \A i \in 1..Len(props) : props[i].fa.variants[1].kind = first
             THEN first ELSE "null"

\* "null" stands for the JavaScript null the function returns for "not a map"
maybeAsMap(objAgg) ==
  LET props == objAgg.properties
      total == objAgg.totalSeen
  IN IF Len(props) = 0 THEN "null"
     ELSE IF \E i \in 1..Len(props) : props[i].fa.presentCount = total THEN "null"
     ELSE IF \E i \in 1..Len(props) :
               \/ Len(props[i].fa.variants) # 1
               \/ props[i].fa.variants[1].kind \notin ScalarKinds
          THEN "null"
     ELSE LET first == props[1].fa.variants[1].kind
          IN IF \A i \in 1..Len(props) : props[i].fa.variants[1].kind = first
             THEN first ELSE "null"

(* --------------------------- field summary --------------------------- *)
friendlyTypeNameRaw(variant) == variant.kind

friendlyTypeName(variant) ==
  CASE variant.kind = "number" ->
         IF variant.number.integerOnly THEN "integer" ELSE "number"
    [] variant.kind = "timestamp" -> "timestamp"
    [] variant.kind = "reference" -> "documentReference"
    [] variant.kind = "bytes" -> "bytes(base64)"
    [] variant.kind = "geopoint" -> "geopoint"
    [] OTHER -> variant.kind

\* the names the summarizer can sort, in UTF-16 code unit order
CodeUnitOrder ==
  << "array", "boolean", "bytes", "bytes(base64)", "documentReference", "geopoint",
     "integer", "null", "number", "object", "reference", "string", "timestamp",
     "unknown" >>

StrRank(name) == CHOOSE i \in 1..Len(CodeUnitOrder) : CodeUnitOrder[i] = name

\* Array.prototype.sort() without a comparator, on a list of strings
RECURSIVE SortStrings(_)
SortStrings(seq) ==
  IF Len(seq) = 0 THEN <<>>
  ELSE LET m == CHOOSE i \in 1..Len(seq) :
                  \A j \in 1..Len(seq) :
                     \/ StrRank(seq[i]) < StrRank(seq[j])
                     \/ (StrRank(seq[i]) = StrRank(seq[j]) /\ i <= j)
           rest == [i \in 1..(Len(seq) - 1) |-> IF i < m THEN seq[i] ELSE seq[i + 1]]
       IN <<seq[m]>> \o SortStrings(rest)

isRequiredAnyPresence(fa, parentTotalSeen) == fa.presentCount > 0 /\ parentTotalSeen > 0

isRequired(fa, parentTotalSeen) == fa.presentCount = parentTotalSeen

nonNullVariants(fa) ==
  LET NotNull(v) == v.kind # "null" IN SelectSeq(fa.variants, NotNull)

requiredKeys(oa) ==
  LET Full(p) == p.fa.presentCount = oa.totalSeen
      full == SelectSeq(oa.properties, Full)
  IN [i \in 1..Len(full) |-> full[i].k]

\* {..., requiredFields: req.length ? req : undefined, ...}
withRequiredFields(rec, req) ==
  IF Len(req) > 0
  THEN [x \in DOMAIN rec \cup {"requiredFields"} |->
          IF x = "requiredFields" THEN req ELSE rec[x]]
  ELSE rec

\* the items slot measured against the arrays seen
itemsParentTotalSeenOfArrays(aa) == aa.totalSeen

\* the second argument of the items call: v.array.items.presentCount || 1
itemsParentTotalSeen(aa) ==
  IF aa.items[1].presentCount # 0 THEN aa.items[1].presentCount ELSE 1

RECURSIVE assignEntries(_, _, _)
\* "fields[k] = ..." for each pair in turn, on the object kept in out
assignEntries(pairs, i, out) ==
  IF i > Len(pairs) THEN out
  ELSE assignEntries(pairs, i + 1, setKey(out, pairs[i][1], pairs[i][2]))

\* the plain object "fields" after the loop over properties.entries(): its own
\* keys k with their summaries s, in the order the object lists them
fieldsObject(pairs) ==
  LET fields == assignEntries(pairs, 1, <<>>)
  IN [i \in 1..Len(fields) |-> [k |-> fields[i][1], s |-> fields[i][2]]]

RECURSIVE summarizeField(_, _)
summarizeField(fa, parentTotalSeen) ==
  LET isNullable == \E i \in 1..Len(fa.variants) : fa.variants[i].kind = "null"
      required == isRequired(fa, parentTotalSeen)
      nonNull == nonNullVariants(fa)
  IN IF Len(nonNull) = 0 THEN [type |-> "unknown", required |-> required, nullable |-> TRUE]
     ELSE IF Len(nonNull) > 1
     THEN [type |-> "union",
           union |-> SortStrings([i \in 1..Len(nonNull) |-> friendlyTypeName(nonNull[i])]),
           required |-> required, nullable |-> isNullable]
     ELSE LET v == nonNull[1] IN
       CASE v.kind = "string" ->
              [type |-> "string", required |-> required, nullable |-> isNullable]
         [] v.kind = "boolean" ->
              [type |-> "boolean", required |-> required, nullable |-> isNullable]
         [] v.kind = "number" ->
              [type |-> IF v.number.integerOnly THEN "integer" ELSE "number",
               required |-> required, nullable |-> isNullable]
         [] v.kind = "timestamp" ->
              [type |-> "timestamp", format |-> "RFC3339",
               required |-> required, nullable |-> isNullable]
         [] v.kind = "reference" ->
              [type |-> "documentReference", required |-> required, nullable |-> isNullable]
         [] v.kind = "bytes" ->
              [type |-> "bytes(base64)", required |-> required, nullable |-> isNullable]
         [] v.kind = "geopoint" ->
              [type |-> "geopoint{latitude:number, longitude:number}",
               required |-> required, nullable |-> isNullable]
         [] v.kind = "array" ->
              [type |-> "array",
               items |-> IF v.array.items # <<>>
                         THEN summarizeField(v.array.items[1], itemsParentTotalSeen(v.array))
                         ELSE [type |-> "any"],
               required |-> required, nullable |-> isNullable]
         [] v.kind = "object" ->
              IF maybeAsMap(v.object) # "null"
              THEN [type |-> "map<string, " \o maybeAsMap(v.object) \o ">",
                    required |-> required, nullable |-> isNullable]
              ELSE withRequiredFields(
                     [type |-> "object", required |-> required, nullable |-> isNullable,
                      fields |-> fieldsObject(
                                   [i \in 1..Len(v.object.properties) |->
                                      <<v.object.properties[i].k,
                                        summarizeField(v.object.properties[i].fa,
                                                       v.object.totalSeen)>>])],
                     requiredKeys(v.object))
         [] OTHER -> [type |-> "unknown", required |-> required, nullable |-> isNullable]

profileFromAgg(collectionPath, a) ==
  [collection |-> collectionPath,
   document |-> withRequiredFields(
     [fields |-> fieldsObject(
                   [i \in 1..Len(a.properties) |->
                      <<a.properties[i].k,
                        summarizeField(a.properties[i].fa, a.totalSeen)>>])],
     requiredKeys(a))]

\* What a call of the summarizer leaves in the aggregate it was given. The
\* statements that write are kinds.push (line 108), sort() (line 132),
\* fields[k] = (lines 157, 169) and req.push / required.push (lines 158, 170).
\* kinds, fields, req and required are made by the call itself; sort() orders
\* the array it is called on, in place.

\* sort() called on fa.variants itself, ordering it by friendly type name
variantsAfterUnionInPlace(variants) ==
  LET names == SortStrings([j \in 1..Len(variants) |->
                             IF variants[j].kind = "null" THEN "null"
                             ELSE friendlyTypeName(variants[j])])
  IN [j \in 1..Len(names) |->
        variants[CHOOSE n \in 1..Len(variants) :
                   names[j] = IF variants[n].kind = "null" THEN "null"
                              ELSE friendlyTypeName(variants[n])]]

\* line 132: sort() is called on the array nonNull.map(...) returned, a new
\* array; fa.variants and the array filter() returned (line 128) stay as they are
variantsAfterUnion(variants) == variants

RECURSIVE fieldAfterSummary(_)
\* fa after summarizeField(fa, parentTotalSeen), along the branch the call takes
fieldAfterSummary(fa) ==
  LET nonNull == nonNullVariants(fa)
  IN IF Len(nonNull) = 0 THEN fa
     ELSE IF Len(nonNull) > 1 THEN [fa EXCEPT !.variants = variantsAfterUnion(@)]
     ELSE LET i == variantIndex(fa, nonNull[1].kind)
              v == fa.variants[i]
          IN CASE v.kind = "array" /\ v.array.items # <<>> ->
                    [fa EXCEPT !.variants[i].array.items =
                                 << fieldAfterSummary(v.array.items[1]) >>]
               [] v.kind = "object" /\ maybeAsMap(v.object) = "null" ->
                    [fa EXCEPT !.variants[i].object.properties =
                                 [j \in 1..Len(v.object.properties) |->
                                    [v.object.properties[j] EXCEPT
                                       !.fa = fieldAfterSummary(@)]]]
               [] OTHER -> fa

\* agg after profileFromAgg(collectionPath, agg)
aggAfterProfile(a) ==
  [a EXCEPT !.properties =
     [j \in 1..Len(a.properties) |->
        [a.properties[j] EXCEPT !.fa = fieldAfterSummary(@)]]]

(* ----------------------------- documents ----------------------------- *)
Docs ==
  { JsObj(<< <<"a", JsNum(2)>>, <<"b", JsStr("x")>> >>),
    JsObj(<< <<"b", JsStr("y")>>, <<"a", JsNum(3)>> >>),
    JsObj(<< <<"a", JsStr("s")>> >>),
    JsObj(<< <<"a", JsNull>> >>),
    JsObj(<< <<"a", JsObj(<< <<"x", JsBool(TRUE)>> >>)>> >>),
    JsObj(<< <<"a", JsObj(<< <<"y", JsBool(FALSE)>> >>)>> >>),
    JsObj(<< <<"a", JsObj(<<>>)>> >>),
    JsObj(<< <<"a", JsArr(<<JsNum(4), JsStr("s")>>)>> >>),
    JsObj(<< <<"a", JsArr(<<>>)>> >>),
    JsObj(<< <<"b", JsRef>> >>),
    JsObj(<< <<"b", JsDate>>, <<"a", JsArr(<<JsGeoPoint, JsBuffer, JsTimestamp>>)>> >>),
    JsObj(<< <<"b", JsNull>>, <<"a", JsNull>> >>),
    JsObj(<<>>) }

COLLECTION_PATH == "weekly_lessons"

(* ------------------- linter: helpers (pass 1) ------------------------ *)
\* the test that sends a value of flattenDoc's loop into the recursion
flattens(v) ==
  isPlainObject(v) /\ v.js \notin {"Timestamp", "GeoPoint", "DocumentReference"}

RECURSIVE flattenEntries(_, _, _, _)
\* flattenDoc's loop over Object.entries(data), from entry i on
flattenEntries(entries, i, base, out) ==
  IF i > Len(entries) THEN out
  ELSE LET k == entries[i][1]
           v == entries[i][2]
           path == IF base # "" THEN base \o "." \o k ELSE k
       IN IF flattens(v)
          THEN flattenEntries(entries, i + 1, base,
                              flattenEntries(ObjectEntries(v), 1, path, out))
          ELSE flattenEntries(entries, i + 1, base, setKey(out, path, v))

flattenDoc(data) ==
  IF ~isPlainObject(data) THEN <<>> ELSE flattenEntries(ObjectEntries(data), 1, "", <<>>)

\* strings are over ISO 8859-1; these are its letters that have a lower case
UpperLetters ==
  "ABCDEFGHIJKLMNOPQRSTUVWXYZ" \o
  "ÀÁÂÃÄÅÆÇÈÉÊËÌÍÎÏÐÑÒÓÔÕÖØÙÚÛÜÝÞ"

LowerLetters ==
  "abcdefghijklmnopqrstuvwxyz" \o
  "àáâãäåæçèéêëìíîïðñòóôõöøùúûüýþ"

\* String.prototype.toLowerCase on one character
LowerCase(c) ==
  LET hits == { i \in 1..Len(UpperLetters) : Ch(UpperLetters, i) = c }
  IN IF hits = {} THEN c ELSE Ch(LowerLetters, CHOOSE i \in hits : TRUE)

RECURSIVE normalizeFieldName(_)
\* path.replace(/\./g, "").replace(/_/g, "").toLowerCase()
normalizeFieldName(path) ==
  IF Len(path) = 0 THEN ""
  ELSE LET c == SubSeq(path, 1, 1)
           rest == normalizeFieldName(SubSeq(path, 2, Len(path)))
       IN IF c = "." \/ c = "_" THEN rest ELSE LowerCase(c) \o rest

\* a pushExample that keeps the latest value when the list is full
pushExampleLatest(arr, value, limit) ==
  IF Len(arr) >= limit /\ Len(arr) > 0 THEN [arr EXCEPT ![Len(arr)] = value]
  ELSE IF Len(arr) >= limit THEN arr
  ELSE Append(arr, value)

pushExample(arr, value, limit) ==
  IF Len(arr) >= limit THEN arr ELSE Append(arr, value)

makeFieldStat ==
  [presentCount |-> 0, kinds |-> <<>>, kindExamples |-> <<>>,
   valueExamples |-> <<>>, regexViolations |-> <<>>]

\* the index of key in a Map or object kept as a sequence of records with field k
entryIndex(seq, key) ==
  LET hits == { i \in 1..Len(seq) : seq[i].k = key }
  IN IF hits = {} THEN 0 ELSE CHOOSE i \in hits : \A j \in hits : i <= j

DecimalDigits == <<"0", "1", "2", "3", "4", "5", "6", "7", "8", "9">>

\* `${v.length}`: the decimal numeral of a natural number
RECURSIVE DigitStr(_)
DigitStr(n) ==
  IF n < 10 THEN DecimalDigits[n + 1]
  ELSE DigitStr(n \div 10) \o DecimalDigits[(n % 10) + 1]

\* timestamps, geopoints, references and unknown values carry no payload here,
\* so each is shown by one fixed rendering
sanitizeValueForReport(v) ==
  LET kind == detectKind(v) IN
    IF v.js \in {"null", "undefined"} \/ kind \in {"string", "number", "boolean"} THEN v
    ELSE IF kind = "timestamp" THEN JsStr("1970-01-01T00:00:00.000Z")
    ELSE IF kind = "geopoint"
         THEN JsObj(<< <<"latitude", JsNum(0)>>, <<"longitude", JsNum(0)>> >>)
    ELSE IF kind = "reference" THEN JsStr("col/doc")
    ELSE IF kind = "bytes" THEN JsStr("(bytes)")
    ELSE IF kind = "array" THEN JsStr("(array len=" \o DigitStr(Len(v.els)) \o ")")
    ELSE IF kind = "object" THEN JsStr("(object)")
    ELSE JsStr("String(v)")

Uppers == { "A", "B", "C", "D", "E", "F", "G", "H", "I", "J", "K", "L", "M",
            "N", "O", "P", "Q", "R", "S", "T", "U", "V", "W", "X", "Y", "Z" }

\* rule.regex.test(value) for the patterns of the rule set:
\*   date    /^\d{4}-\d{2}-\d{2}$/
\*   time    /^([01]\d|2[0-3]):[0-5]\d$/
\*   upper3  /^[A-Z]{3}$/
regexTest(regex, str) ==
  CASE regex = "date" ->
         /\ Len(str) = 10
         /\ \A i \in {1, 2, 3, 4, 6, 7, 9, 10} : Ch(str, i) \in Digits
         /\ Ch(str, 5) = "-" /\ Ch(str, 8) = "-"
    [] regex = "time" ->
         /\ Len(str) = 5
         /\ \/ Ch(str, 1) \in {"0", "1"} /\ Ch(str, 2) \in Digits
            \/ Ch(str, 1) = "2" /\ Ch(str, 2) \in {"0", "1", "2", "3"}
         /\ Ch(str, 3) = ":"
         /\ Ch(str, 4) \in {"0", "1", "2", "3", "4", "5"}
         /\ Ch(str, 5) \in Digits
    [] regex = "upper3" ->
         /\ Len(str) = 3
         /\ \A i \in 1..3 : Ch(str, i) \in Uppers
    [] OTHER -> FALSE

\* stat.kinds[kind] = (stat.kinds[kind] || 0) + 1
countKind(kinds, kind) ==
  IF entryIndex(kinds, kind) = 0 THEN Append(kinds, [k |-> kind, n |-> 1])
  ELSE [kinds EXCEPT ![entryIndex(kinds, kind)].n = @ + 1]

\* if (!stat.kindExamples[kind]) stat.kindExamples[kind] = []; pushExample(...)
noteKindExample(kindExamples, kind, docId, limit) ==
  LET ke == IF entryIndex(kindExamples, kind) = 0
            THEN Append(kindExamples, [k |-> kind, ids |-> <<>>])
            ELSE kindExamples
  IN [ke EXCEPT ![entryIndex(ke, kind)].ids = pushExample(@, docId, limit)]

\* the properties every object literal inherits from Object.prototype
ObjectPrototypeKeys ==
  { "constructor", "hasOwnProperty", "isPrototypeOf", "propertyIsEnumerable",
    "toLocaleString", "toString", "valueOf", "__proto__", "__defineGetter__",
    "__defineSetter__", "__lookupGetter__", "__lookupSetter__" }

\* CONFIG.STRING_REGEX_RULES[fieldPath] on the object literal: the index of
\* the rule, 0 for undefined, -1 for an inherited property (a truthy value
\* that is no rule and has no regex)
ruleIndex(rules, fieldPath) ==
  IF entryIndex(rules, fieldPath) # 0 THEN entryIndex(rules, fieldPath)
  ELSE IF fieldPath \in ObjectPrototypeKeys THEN 0 - 1
  ELSE 0

\* rule.regex.test(value) on a rule without regex: TypeError
fieldThrows(fieldPath, value, cfg) ==
  ruleIndex(cfg.STRING_REGEX_RULES, fieldPath) = 0 - 1 /\ detectKind(value) = "string"

\* the body of pass 1's loop for one flattened field of a document
noteField(stat, fieldPath, value, docId, cfg) ==
  LET kind == detectKind(value)
      r == ruleIndex(cfg.STRING_REGEX_RULES, fieldPath)
  IN [presentCount |-> stat.presentCount + 1,
      kinds |-> countKind(stat.kinds, kind),
      kindExamples |-> noteKindExample(stat.kindExamples, kind, docId,
                                       cfg.EXAMPLES_PER_ISSUE),
      valueExamples |-> pushExample(stat.valueExamples,
                                    [doc |-> docId, value |-> sanitizeValueForReport(value)],
                                    cfg.EXAMPLES_PER_ISSUE),
      regexViolations |->
        IF r > 0 /\ kind = "string"
             /\ ~regexTest(cfg.STRING_REGEX_RULES[r].regex, value.s)
        THEN pushExample(stat.regexViolations, [doc |-> docId, value |-> value],
                         cfg.EXAMPLES_PER_ISSUE)
        ELSE stat.regexViolations]

\* variantGroups.get(norm) || new Set(); set.add(fieldPath)
noteVariant(variantGroups, fieldPath) ==
  LET norm == normalizeFieldName(fieldPath)
      vg == IF entryIndex(variantGroups, norm) = 0
            THEN Append(variantGroups, [k |-> norm, paths |-> <<>>])
            ELSE variantGroups
      g == entryIndex(vg, norm)
  IN IF \E i \in 1..Len(vg[g].paths) : vg[g].paths[i] = fieldPath THEN vg
     ELSE [vg EXCEPT ![g].paths = Append(@, fieldPath)]

RECURSIVE pass1Fields(_, _, _, _, _)
\* "for (const [fieldPath, value] of Object.entries(flat))" from entry i on;
\* p1 holds fieldStats, variantGroups and totalDocs; the loop ends at the
\* field whose rule lookup throws, that field counted but no variant noted
pass1Fields(p1, flat, i, docId, cfg) ==
  IF i > Len(flat) THEN p1
  ELSE LET fieldPath == flat[i][1]
           value == flat[i][2]
           fs == IF entryIndex(p1.fieldStats, fieldPath) = 0
                 THEN Append(p1.fieldStats, [k |-> fieldPath, stat |-> makeFieldStat])
                 ELSE p1.fieldStats
           j == entryIndex(fs, fieldPath)
       IN IF fieldThrows(fieldPath, value, cfg)
          THEN [p1 EXCEPT
                  !.fieldStats = [fs EXCEPT ![j].stat = noteField(@, fieldPath, value, docId, cfg)]]
          ELSE
          pass1Fields(
            [p1 EXCEPT
               !.fieldStats = [fs EXCEPT ![j].stat = noteField(@, fieldPath, value, docId, cfg)],
               !.variantGroups = IF cfg.CHECK_FIELD_NAME_VARIANTS
                                 THEN noteVariant(@, fieldPath) ELSE @],
            flat, i + 1, docId, cfg)

\* pass 1's onDoc callback throws on this document
pass1Throws(doc, cfg) ==
  LET flat == flattenDoc(doc.data)
  IN \E i \in 1..Len(flat) : fieldThrows(flat[i][1], flat[i][2], cfg)

\* pass 1's onDoc callback
pass1OnDoc(p1, doc, cfg) ==
  pass1Fields([p1 EXCEPT !.totalDocs = @ + 1], flattenDoc(doc.data), 1, doc.id, cfg)

(* ------------------- linter: pass 2 and the report ------------------- *)
RECURSIVE pass2Fields(_, _, _, _, _, _)
\* "for (const f of expectedList)" from field i on; flat's keys are the set present
pass2Fields(missingExamples, expectedList, i, flat, docId, limit) ==
  IF i > Len(expectedList) THEN missingExamples
  ELSE LET f == expectedList[i] IN
    IF \E j \in 1..Len(flat) : flat[j][1] = f
    THEN pass2Fields(missingExamples, expectedList, i + 1, flat, docId, limit)
    ELSE LET me == IF entryIndex(missingExamples, f) = 0
                   THEN Append(missingExamples, [k |-> f, ids |-> <<>>])
                   ELSE missingExamples
         IN pass2Fields([me EXCEPT ![entryIndex(me, f)].ids = pushExample(@, docId, limit)],
                        expectedList, i + 1, flat, docId, limit)

\* pass 2's onDoc callback
pass2OnDoc(missingExamples, expectedList, doc, cfg) ==
  pass2Fields(missingExamples, expectedList, 1, flattenDoc(doc.data), doc.id,
              cfg.EXAMPLES_PER_ISSUE)

\* Number((p / t).toFixed(4)) in ten-thousandths: the ratio rounded to four
\* decimals, halves up (no ratio of the collections modelled is a midpoint)
\* Where the double nearest to r/t (0 < r < t) lies: binary long division up
\* to the 53 bits a double keeps, then round to nearest, ties to even.
RECURSIVE doubleSide(_, _, _, _)
doubleSide(r, t, taken, lastBit) ==
  IF taken = 53
  THEN IF r = 0 THEN "exact"
       ELSE IF 2 * r > t THEN "above"
       ELSE IF 2 * r < t THEN "below"
       ELSE IF lastBit = 1 THEN "above" ELSE "below"
  ELSE IF 2 * r >= t THEN doubleSide(2 * r - t, t, taken + 1, 1)
  ELSE IF taken = 0 THEN doubleSide(2 * r, t, 0, 0)
  ELSE doubleSide(2 * r, t, taken + 1, 0)

\* Number((p / t).toFixed(4)) in ten-thousandths, 0 <= p <= t: toFixed rounds
\* the double p / t, halves up; a ratio halfway between two ten-thousandths
\* goes down when its double lies below it
Round4(p, t) ==
  LET q == (20000 * p) \div t
      halfway == (20000 * p) % t = 0 /\ q % 2 = 1
  IN IF halfway /\ doubleSide(p, t, 0, 0) = "below" THEN (q - 1) \div 2
     ELSE (20000 * p + t) \div (2 * t)

presentPct(presentCount, totalDocs) ==
  IF totalDocs # 0 THEN Round4(presentCount, totalDocs) ELSE 0

withKey(rec, key, val) ==
  [x \in DOMAIN rec \cup {key} |-> IF x = key THEN val ELSE rec[x]]

RECURSIVE SortByKey(_)
\* Array.prototype.sort with a numeric comparator (a, b) => a.sk - b.sk: stable
SortByKey(seq) ==
  IF Len(seq) = 0 THEN <<>>
  ELSE LET m == CHOOSE i \in 1..Len(seq) :
                  \A j \in 1..Len(seq) :
                     seq[i].sk < seq[j].sk \/ (seq[i].sk = seq[j].sk /\ i <= j)
           rest == [i \in 1..(Len(seq) - 1) |-> IF i < m THEN seq[i] ELSE seq[i + 1]]
       IN <<seq[m]>> \o SortByKey(rest)

Unkey(seq) == [i \in 1..Len(seq) |-> seq[i].v]

statOf(fieldStats, field) == fieldStats[entryIndex(fieldStats, field)].stat

\* a lookup that finds no stat: every count is the fallback 0
presentCountOfNothing(fieldStats, field) == 0

\* fieldStats.get(v)?.presentCount || 0
presentCountOf(fieldStats, field) ==
  IF entryIndex(fieldStats, field) = 0 THEN 0 ELSE statOf(fieldStats, field).presentCount

\* the per-field rows buildReport makes first; type_mismatch is kept as the
\* truth value the later filter reads (the code stores true or undefined)
reportFields(fieldStats, totalDocs) ==
  [i \in 1..Len(fieldStats) |->
     LET stat == fieldStats[i].stat
         NotNull(e) == e.k # "null"
         nonNullKinds == SelectSeq(stat.kinds, NotNull)
         row == [field |-> fieldStats[i].k,
                 present_count |-> stat.presentCount,
                 present_pct |-> presentPct(stat.presentCount, totalDocs),
                 kinds |-> stat.kinds,
                 type_mismatch |-> Len(nonNullKinds) > 1]
     IN IF Len(stat.regexViolations) > 0
        THEN withKey(row, "regex_violations_examples", stat.regexViolations)
        ELSE row]

reportExpectedFields(fields, cfg) ==
  LET Expected(f) == f.present_pct >= cfg.REQUIRED_THRESHOLD
      kept == SelectSeq(fields, Expected)
  IN Unkey(SortByKey([i \in 1..Len(kept) |-> [sk |-> 0 - kept[i].present_pct, v |-> kept[i]]]))

\* missingExamples?.get(f.field) || []
missingExamplesOf(missingExamples, field) ==
  IF entryIndex(missingExamples, field) = 0 THEN <<>>
  ELSE missingExamples[entryIndex(missingExamples, field)].ids

reportMissingIssues(expectedFields, totalDocs, missingExamples) ==
  LET Short(f) == totalDocs - f.present_count > 0
      kept == SelectSeq(expectedFields, Short)
      issue(f) ==
        LET missingCount == totalDocs - f.present_count
            examples == missingExamplesOf(missingExamples, f.field)
            rec == [field |-> f.field, missing_count |-> missingCount,
                    missing_pct |-> Round4(missingCount, totalDocs)]
        IN IF Len(examples) > 0 THEN withKey(rec, "example_doc_ids", examples) ELSE rec
  IN Unkey(SortByKey([i \in 1..Len(kept) |->
                        [sk |-> 0 - (totalDocs - kept[i].present_count),
                         v |-> issue(kept[i])]]))

reportTypeMismatchIssues(fields, fieldStats) ==
  LET Mismatch(f) == f.type_mismatch
      kept == SelectSeq(fields, Mismatch)
      NonEmpty(e) == Len(e.ids) > 0
      issue(f) == [field |-> f.field, kinds |-> f.kinds,
                   example_doc_ids_by_kind |->
                     SelectSeq(statOf(fieldStats, f.field).kindExamples, NonEmpty)]
  IN Unkey(SortByKey([i \in 1..Len(kept) |->
                        [sk |-> 0 - Len(kept[i].kinds), v |-> issue(kept[i])]]))

reportRareIssues(fields, fieldStats, cfg) ==
  LET Rare(f) == f.present_pct <= cfg.RARE_FIELD_MAX_PCT
      kept == SelectSeq(fields, Rare)
      issue(f) ==
        LET stat == statOf(fieldStats, f.field)
            ex == IF Len(stat.kindExamples) > 0 THEN stat.kindExamples[1].ids ELSE <<>>
            rec == [field |-> f.field, present_count |-> f.present_count,
                    present_pct |-> f.present_pct]
        IN IF Len(ex) > 0 THEN withKey(rec, "example_doc_ids", ex) ELSE rec
  IN Unkey(SortByKey([i \in 1..Len(kept) |-> [sk |-> kept[i].present_pct, v |-> issue(kept[i])]]))

\* variants.map((v) => ({ field: v, present_count: ... }))
variantEntries(variants, fieldStats) ==
  [i \in 1..Len(variants) |->
     [field |-> variants[i],
      present_count |-> presentCountOf(fieldStats, variants[i])]]

\* the groups of the field-name variants section (before "groups.length ? ...")
reportVariantGroups(variantGroups, fieldStats) ==
  LET Several(g) == Len(g.paths) > 1
      kept == SelectSeq(variantGroups, Several)
      group(g) ==
        LET variants == Unkey(SortByKey(
                          [i \in 1..Len(g.paths) |->
                             [sk |-> 0 - presentCountOf(fieldStats, g.paths[i]),
                              v |-> g.paths[i]]]))
        IN [normalized |-> g.k,
            canonical |-> variants[1],
            variants |-> variantEntries(variants, fieldStats)]
  IN [i \in 1..Len(kept) |-> group(kept[i])]

reportRegexIssues(fieldStats, cfg) ==
  LET Violated(rule) ==
        /\ entryIndex(fieldStats, rule.k) # 0
        /\ Len(statOf(fieldStats, rule.k).regexViolations) > 0
      kept == SelectSeq(cfg.STRING_REGEX_RULES, Violated)
  IN [i \in 1..Len(kept) |->
        [field |-> kept[i].k, regex |-> kept[i].regex, note |-> kept[i].note,
         examples |-> statOf(fieldStats, kept[i].k).regexViolations]]

\* the ids in a list of lists of ids
IdsIn(lists) == UNION { { lists[i][j] : j \in 1..Len(lists[i]) } : i \in 1..Len(lists) }

docsWithIssuesEstimate(missingIssues, typeMismatchIssues, regexIssues) ==
  Cardinality(
    IdsIn([i \in 1..Len(missingIssues) |->
             IF "example_doc_ids" \in DOMAIN missingIssues[i]
             THEN missingIssues[i].example_doc_ids ELSE <<>>])
    \cup UNION { IdsIn([j \in 1..Len(typeMismatchIssues[i].example_doc_ids_by_kind) |->
                          typeMismatchIssues[i].example_doc_ids_by_kind[j].ids]) :
                   i \in 1..Len(typeMismatchIssues) }
    \cup UNION { { regexIssues[i].examples[j].doc : j \in 1..Len(regexIssues[i].examples) } :
                   i \in 1..Len(regexIssues) })

\* the issues block: a section whose list is empty is undefined, that is, left out
reportIssues(missingIssues, typeMismatchIssues, regexIssues, rareIssues, groups, cfg) ==
  LET i0 == [none |-> TRUE]
      i1 == IF Len(missingIssues) > 0 THEN withKey(i0, "missing_fields", missingIssues) ELSE i0
      i2 == IF Len(typeMismatchIssues) > 0
            THEN withKey(i1, "type_mismatches", typeMismatchIssues) ELSE i1
      i3 == IF Len(regexIssues) > 0 THEN withKey(i2, "regex_violations", regexIssues) ELSE i2
      i4 == IF Len(rareIssues) > 0 THEN withKey(i3, "rare_fields", rareIssues) ELSE i3
      i5 == IF cfg.CHECK_FIELD_NAME_VARIANTS /\ Len(groups) > 0
            THEN withKey(i4, "field_name_variants", groups) ELSE i4
  IN [x \in DOMAIN i5 \ {"none"} |-> i5[x]]

buildReport(collectionPath, totalDocs, docsScanned, fieldStats, variantGroups, missingExamples, cfg) ==
  LET fields == reportFields(fieldStats, totalDocs)
      expectedFields == reportExpectedFields(fields, cfg)
      missingIssues == reportMissingIssues(expectedFields, totalDocs, missingExamples)
      typeMismatchIssues == reportTypeMismatchIssues(fields, fieldStats)
      rareIssues == reportRareIssues(fields, fieldStats, cfg)
      groups == reportVariantGroups(variantGroups, fieldStats)
      regexIssues == reportRegexIssues(fieldStats, cfg)
  IN [collection |-> collectionPath,
      meta |-> [sample_limit |-> IF cfg.SAMPLE_LIMIT.js = "number"
                                 THEN cfg.SAMPLE_LIMIT ELSE JsNull,
                docs_scanned |-> docsScanned,
                docs_total_seen |-> totalDocs,
                required_threshold |-> cfg.REQUIRED_THRESHOLD,
                rare_field_max_pct |-> cfg.RARE_FIELD_MAX_PCT,
                examples_per_issue |-> cfg.EXAMPLES_PER_ISSUE],
      summary |-> [fields_total |-> Len(fields),
                   expected_fields_count |-> Len(expectedFields),
                   missing_fields_issues |-> Len(missingIssues),
                   type_mismatch_issues |-> Len(typeMismatchIssues),
                   regex_issues |-> Len(regexIssues),
                   rare_fields_issues |-> Len(rareIssues),
                   docs_with_issues_examples_count |->
                     docsWithIssuesEstimate(missingIssues, typeMismatchIssues, regexIssues)],
      issues |-> reportIssues(missingIssues, typeMismatchIssues, regexIssues,
                              rareIssues, groups, cfg)]

(* ------------------ order-free views of documents ------------------ *)
RECURSIVE DataOf(_)
\* what a value holds, whatever order its keys were written in
DataOf(v) ==
  CASE v.js = "Object" ->
         [js |-> "Object",
          fields |-> [k \in { v.entries[i][1] : i \in 1..Len(v.entries) } |->
                        DataOf(v.entries[CHOOSE i \in 1..Len(v.entries) :
                                           v.entries[i][1] = k][2])]]
    [] v.js = "Array" -> [js |-> "Array", els |-> [i \in 1..Len(v.els) |-> DataOf(v.els[i])]]
    [] OTHER -> v

\* documents for the order experiments: the first two hold the same data
OrderDocs ==
  { JsObj(<< <<"a", JsNum(2)>>, <<"b", JsStr("x")>> >>),
    JsObj(<< <<"b", JsStr("x")>>, <<"a", JsNum(2)>> >>),
    JsObj(<< <<"b", JsBool(TRUE)>> >>),
    JsObj(<< <<"a", JsStr("s")>>, <<"b", JsNull>> >>),
    JsObj(<< <<"a", JsNull>>, <<"b", JsNull>> >>),
    JsObj(<< <<"b", JsNull>>, <<"a", JsNull>> >>),
    JsObj(<< <<"a", JsNum(3)>>, <<"c", JsArr(<<JsNum(3), JsStr("s")>>)>> >>),
    JsObj(<< <<"c", JsArr(<<>>)>>, <<"a", JsObj(<< <<"x", JsNum(3)>> >>)>> >>),
    JsObj(<< <<"a", JsObj(<< <<"x", JsNum(2)>>, <<"y", JsBool(TRUE)>> >>)>>,
             <<"c", JsArr(<<JsNum(2)>>)>> >>) }

\* what the documents of the order experiments hold
BagData == { DataOf(d) : d \in OrderDocs }

(* ------------------------- copyCollection.js ------------------------- *)
\* A document of the source collection or of one of its subcollections is
\* named by the ids on the way to it: <<2>> is the collection's document 2,
\* <<2, 1>> document 1 of the subcollection of <<2>>.
DocPaths == UNION { [1..n -> 1..MaxWidth] : n \in 1..MaxDepth }

IsParentOf(p, q) == Len(q) = Len(p) + 1 /\ \A i \in 1..Len(p) : q[i] = p[i]

\* what Firestore can hold: every subcollection document below a document
SourceTrees ==
  { t \in SUBSET DocPaths :
      \A q \in t : Len(q) > 1 => \E p \in t : IsParentOf(p, q) }

\* snapshot.docs of a collection: its documents in ascending id order
RECURSIVE docsFrom(_, _, _)
docsFrom(store, parent, id) ==
  IF id > MaxWidth THEN <<>>
  ELSE (IF Append(parent, id) \in store THEN << Append(parent, id) >> ELSE <<>>)
       \o docsFrom(store, parent, id + 1)

docsOf(store, parent) == docsFrom(store, parent, 1)

\* const batcher = makeBatcher(): an open WriteBatch and its counter
makeBatcher == [writes |-> <<>>, count |-> 0, committed |-> FALSE]

\* the effect of a committed WriteBatch on the two collections
commitWrites(st) ==
  LET ws == st.batch.writes
  IN [st EXCEPT
        !.dest = @ \cup { ws[i].path : i \in { j \in 1..Len(ws) : ws[j].op = "set" } },
        !.source = @ \ { ws[i].path : i \in { j \in 1..Len(ws) : ws[j].op = "delete" } }]

\* await batch.commit(); batch = db.batch(); count = 0 -- a rejected commit
\* leaves the committed batch and its counter in place and throws
commitBatch(st, rejected) ==
  IF rejected THEN [st EXCEPT !.batch.committed = TRUE, !.threw = TRUE]
  ELSE [commitWrites(st) EXCEPT !.batch = makeBatcher]

\* maybeCommit has a commit to await
maybeCommit(st, limit) == st.batch.count >= limit

\* batcher.set / batcher.delete up to "await maybeCommit()": a WriteBatch
\* that was committed takes no further write (the call throws)
batcherWrite(st, w, cfg) ==
  IF cfg.DRY_RUN THEN st
  ELSE IF st.batch.committed THEN [st EXCEPT !.threw = TRUE]
  ELSE [st EXCEPT !.batch.writes = Append(@, w), !.batch.count = @ + 1]

flush(st, cfg, rejected) ==
  IF cfg.DRY_RUN THEN st
  ELSE IF st.batch.count > 0 THEN commitBatch(st, rejected)
  ELSE st

\* the documents copyDocRecursive hands to batcher.set, in call order
RECURSIVE copyDocRecursive(_, _, _)
RECURSIVE copyChildren(_, _, _, _)
copyChildren(store, children, i, cfg) ==
  IF i > Len(children) THEN <<>>
  ELSE copyDocRecursive(store, children[i], cfg) \o copyChildren(store, children, i + 1, cfg)

copyDocRecursive(store, p, cfg) ==
  IF p \notin store THEN <<>>
  ELSE << p >> \o (IF ~cfg.INCLUDE_SUBCOLLECTIONS THEN <<>>
                   ELSE copyChildren(store, docsOf(store, p), 1, cfg))

\* the documents deleteDocRecursive hands to batcher.delete, in call order
RECURSIVE deleteDocRecursive(_, _)
RECURSIVE deleteChildren(_, _, _)
deleteChildren(store, children, i) ==
  IF i > Len(children) THEN <<>>
  ELSE deleteDocRecursive(store, children[i]) \o deleteChildren(store, children, i + 1)

deleteDocRecursive(store, p) ==
  deleteChildren(store, docsOf(store, p), 1) \o << p >>

\* the calls of batcher.set or batcher.delete for these documents
Writes(op, paths) == [i \in 1..Len(paths) |-> [op |-> op, path |-> paths[i]]]

\* the CONFIG block of copyCollection.js as the source has it
SourceCopyConfig ==
  [INCLUDE_SUBCOLLECTIONS |-> FALSE, IS_DESTRUCTIVE |-> FALSE, BATCH_SIZE |-> 400,
   DRY_RUN |-> FALSE]

CopyBatchSizes == {1, 2}

CopyConfigs ==
  [INCLUDE_SUBCOLLECTIONS : BOOLEAN, IS_DESTRUCTIVE : BOOLEAN, BATCH_SIZE : CopyBatchSizes,
   DRY_RUN : BOOLEAN]

(* ------------------------------- state ------------------------------- *)
VARIABLES
  inferPc,    \* inferSchema.js: load, ReferenceError, or functions (see Init, AggIdle)
  agg,        \* buildProfile's aggregate of the collection's documents
  summary,    \* the value of the latest profileFromAgg call
  sumCalls,   \* profileFromAgg calls since the latest fold
  folded,     \* the documents handed to addObjectSample(agg, ...) so far, in order (history)
  threw,      \* the fold into agg threw
  threwB,     \* the fold into aggB threw
  aggB,       \* a second aggregate (makeObjectAgg), folded on its own
  bagA,       \* how often each document's data was folded into agg
  bagB,       \* how often each document's data was folded into aggB
  collection, \* the linted collection: its documents in document-id order
  config,     \* the linter's CONFIG block
  pc,         \* where the linter run stands: get, docs, expected, report, done
  pass,       \* the pass the scan belongs to, 1 or 2
  docsSeen,   \* scanCollectionDocs: docsSeen
  cursor,     \* scanCollectionDocs: how many documents lie at or before startAfter
  snap,       \* scanCollectionDocs: snap.docs of the batch being iterated
  snapPos,    \* scanCollectionDocs: the position of the for loop in snap.docs
  p1,         \* pass 1: fieldStats, variantGroups, totalDocs
  docsScanned,     \* pass 1: the count scanCollectionDocs returned
  expectedFields,  \* run: the Set of expected fields
  missingExamples, \* pass 2: the Map fieldPath -> example ids
  report,     \* the report buildReport returned
  handed,     \* the documents handed to onDoc, per pass (history)
  failed,     \* a batch read of the run rejected (history)
  probe,      \* the value handed to the classifier
  probeKind,  \* what detectKind returned for it
  copyConfig, \* copyCollection.js: its CONFIG
  source,     \* the documents of the source collection and its subcollections
  dest,       \* the documents written under the destination collection
  original,   \* the source as it was when the script started (history)
  batch,      \* the batcher in use: its WriteBatch and count
  copyPc,     \* where copyCollection stands
  snapshotDocs, \* snapshot.docs of the loop that is running
  position,   \* how many documents of snapshot.docs the loop has taken
  processedCount,
  copiedCount,
  errorCount,
  roundWrites \* the writes the round under way has still to hand to the batcher

aggVars == <<inferPc, agg, summary, sumCalls, folded, threw>>
sideVars == <<aggB, bagA, bagB, threwB>>
scanVars == <<docsSeen, cursor, snap, snapPos>>
lintVars == <<collection, config, pc, pass, docsSeen, cursor, snap, snapPos, p1,
              docsScanned, expectedFields, missingExamples, report, handed, failed>>
classVars == <<probe, probeKind>>
copyVars == <<copyConfig, source, dest, original, batch, copyPc, snapshotDocs, position,
              processedCount, copiedCount, errorCount, roundWrites>>
vars == <<inferPc, agg, summary, sumCalls, folded, threw, threwB, aggB, bagA, bagB, collection, config, pc,
          pass, docsSeen, cursor, snap, snapPos, p1, docsScanned, expectedFields,
          missingExamples, report, handed, failed, probe, probeKind, copyConfig, source,
          dest, original, batch, copyPc, snapshotDocs, position, processedCount,
          copiedCount, errorCount, roundWrites>>

NoAggregate == [pending |-> TRUE]
NoSummary == [pending |-> TRUE]
NoReport == [pending |-> TRUE]
NoLimit == [js |-> "undefined"]
Limit(n) == [js |-> "number", n |-> n]

\* the CONFIG block as the source has it (thresholds in ten-thousandths)
SourceConfig ==
  [COLLECTION_PATH |-> "users",
   SAMPLE_LIMIT |-> NoLimit,
   BATCH_SIZE |-> 500,
   REQUIRED_THRESHOLD |-> 9000,
   RARE_FIELD_MAX_PCT |-> 500,
   EXAMPLES_PER_ISSUE |-> 20,
   CHECK_FIELD_NAME_VARIANTS |-> TRUE,
   STRING_REGEX_RULES |-> << [k |-> "date", regex |-> "date", note |-> "YYYY-MM-DD"],
                             [k |-> "time", regex |-> "time", note |-> "HH:mm (24h)"] >>]

\* nothing summarized, nothing thrown, the second aggregate empty
NothingSummarized ==
  /\ summary = NoSummary
  /\ sumCalls = 0
  /\ threw = FALSE
  /\ threwB = FALSE
  /\ aggB = makeObjectAgg
  /\ bagA = [c \in BagData |-> 0]
  /\ bagB = [c \in BagData |-> 0]

\* The functions of inferSchema.js taken by themselves: buildProfile,
\* profileFromAgg, detectKind called directly, the top-level statements of the
\* file (lines 6-23 and the call of line 303) not run.
AggIdle ==
  /\ inferPc = "functions"
  /\ NothingSummarized

\* const agg = makeObjectAgg(), before the first document
AggInit ==
  /\ agg = makeObjectAgg
  /\ folded = <<>>
  /\ AggIdle

\* the linter before a run: nothing scanned, nothing reported
LintIdle ==
  /\ docsSeen = 0
  /\ cursor = 0
  /\ snap = <<>>
  /\ snapPos = 0
  /\ p1 = [fieldStats |-> <<>>, variantGroups |-> <<>>, totalDocs |-> 0]
  /\ docsScanned = 0
  /\ expectedFields = <<>>
  /\ missingExamples = <<>>
  /\ report = NoReport
  /\ handed = << <<>>, <<>> >>
  /\ failed = FALSE

\* copyCollection.js not started
CopyIdle ==
  /\ copyConfig = SourceCopyConfig
  /\ source = {}
  /\ dest = {}
  /\ original = {}
  /\ batch = makeBatcher
  /\ copyPc = "idle"
  /\ snapshotDocs = <<>>
  /\ position = 0
  /\ processedCount = 0
  /\ copiedCount = 0
  /\ errorCount = 0
  /\ roundWrites = <<>>

\* no value classified yet
ClassIdle ==
  /\ probe = JsNull
  /\ probeKind = "pending"

\* the linter, the classifier and copyCollection.js at rest
OthersIdle ==
  /\ LintIdle
  /\ ClassIdle
  /\ CopyIdle
  /\ collection = <<>>
  /\ config = SourceConfig
  /\ pc = "idle"
  /\ pass = 1

\* node scripts/inferSchema.js: the file about to be evaluated from its first
\* statement; buildProfile is not called yet and there is no aggregate
Init ==
  /\ inferPc = "load"
  /\ agg = NoAggregate
  /\ folded = <<>>
  /\ NothingSummarized
  /\ OthersIdle

\* buildProfile called by itself, at const agg = makeObjectAgg()
InitBuildProfile == AggInit /\ OthersIdle

\* The top-level statements of the file, lines 6-23. Line 6 binds db only; the
\* initializer of PROJECT_ID reads admin.app() (line 19) and `admin` is bound
\* nowhere: ReferenceError while the file loads. Node ends with exit code 1;
\* the function of line 303 is not called and nothing is printed.
LoadModule ==
  /\ inferPc = "load"
  /\ inferPc' = "ReferenceError"
  /\ UNCHANGED <<agg, summary, sumCalls, folded, threw>>
  /\ UNCHANGED sideVars
  /\ UNCHANGED lintVars
  /\ UNCHANGED classVars /\ UNCHANGED copyVars

\* docs.forEach(d => addObjectSample(agg, d.data())), one document. A throw
\* of the callback rejects buildProfile; run's catch ends the process.
AddDoc(d) ==
  /\ inferPc = "functions"
  /\ ~threw
  /\ agg' = addObjectSample(agg, d).v
  /\ threw' = addObjectSample(agg, d).threw
  /\ sumCalls' = 0
  /\ folded' = Append(folded, d)
  /\ UNCHANGED <<inferPc, summary>>

\* const mainProfile = profileFromAgg(collectionPath, agg), reached when forEach returned
Summarize ==
  /\ inferPc = "functions"
  /\ ~threw
  /\ sumCalls < MaxSumCalls
  /\ summary' = profileFromAgg(COLLECTION_PATH, agg)
  /\ agg' = aggAfterProfile(agg)
  /\ sumCalls' = sumCalls + 1
  /\ UNCHANGED <<inferPc, folded, threw>>
  /\ UNCHANGED sideVars
  /\ UNCHANGED lintVars
  /\ UNCHANGED classVars /\ UNCHANGED copyVars

FoldDocs ==
  /\ inferPc = "functions"
  /\ \E d \in Docs :
       agg.totalSeen < MaxDocs /\ AddDoc(d) /\ UNCHANGED sideVars /\ UNCHANGED lintVars
                                /\ UNCHANGED classVars /\ UNCHANGED copyVars

Next == LoadModule \/ FoldDocs \/ Summarize

\* the file run whole, as node runs it
Spec == Init /\ [][Next]_vars

\* buildProfile called by itself
SpecBuildProfile == InitBuildProfile /\ [][Next]_vars

\* the sequences over S of length n or less
RECURSIVE SeqsUpTo(_, _)
SeqsUpTo(S, n) ==
  IF n = 0 THEN { <<>> }
  ELSE SeqsUpTo(S, n - 1)
         \cup { Append(q, x) : q \in { r \in SeqsUpTo(S, n - 1) : Len(r) = n - 1 }, x \in S }

(* ----------------------- the summarizer's inputs ---------------------- *)
\* profileFromAgg(collectionPath, agg) and summarizeField(fa, parentTotalSeen)
\* are functions of the aggregate they are handed. Their inputs are drawn from
\* the aggregate trees of the shapes makeObjectAgg, makeFieldAgg, makeArrayAgg
\* and getOrCreateVariant give them, with the counts of the data model: one
\* variant per kind, each seen at least once, presentCount the sum of the
\* variant counts and at most the owner's totalSeen, an object or array
\* variant counted once per instance, items there iff an instance had an
\* element, as many item samples as the instances with elements or more.
LeafKinds == Kinds \ {"object", "array"}

\* the variants of kind K seen c times
LeafVariants(K, c) ==
  IF K = "number"
  THEN { [kind |-> K, count |-> c, number |-> [integerOnly |-> b]] : b \in BOOLEAN }
  ELSE { [kind |-> K, count |-> c] }

RECURSIVE VariantLists(_, _)
\* the lists of variants of distinct kinds among KS whose counts add up to p
VariantLists(KS, p) ==
  IF p = 0 THEN { <<>> }
  ELSE UNION { { <<v>> \o rest : v \in LeafVariants(K, c),
                                 rest \in VariantLists(KS \ {K}, p - c) } :
                 K \in KS, c \in 1..p }

\* the FieldAggregates present p times that saw kinds among KS only
FieldsOfKinds(KS, p) ==
  { [presentCount |-> p, variants |-> vs] : vs \in VariantLists(KS, p) }

\* the kinds that come together in one field
MixedKinds == {"null", "string", "number", "reference"}

\* the FieldAggregates present p times that saw no object and no array: one
\* kind whatever it is, or several of the mixed kinds
LeafFields(p) ==
  FieldsOfKinds(MixedKinds, p)
    \cup UNION { FieldsOfKinds({K}, p) : K \in LeafKinds }

PropertyKinds == {"boolean", "string", "null"}
PropertyKeys == { <<>>, <<"x">>, <<"1">>, <<"x", "1">>, <<"1", "x">> }

\* the ObjectAggregates of an object variant seen t times: none, one or two of
\* the keys x and 1, in either order of discovery
ObjectAggs(t) ==
  LET fields == UNION { FieldsOfKinds(PropertyKinds, p) : p \in 1..t }
  IN UNION { { [totalSeen |-> t,
                properties |-> [i \in 1..Len(keys) |-> [k |-> keys[i], fa |-> fas[i]]]] :
                 fas \in [1..Len(keys) -> fields] } :
               keys \in PropertyKeys }

\* the ArrayAggregates of an array variant seen t times
ArrayAggs(t) ==
  { [totalSeen |-> t, emptyCount |-> t, items |-> <<>>] }
    \cup UNION { { [totalSeen |-> t, emptyCount |-> e, items |-> <<f>>] :
                     f \in LeafFields(p) } :
                   <<e, p>> \in { <<e, p>> \in (0..(t - 1)) \X (1..MaxSeen) :
                                    p >= t - e } }

NestedVariants(c) ==
  { [kind |-> "object", count |-> c, object |-> oa] : oa \in ObjectAggs(c) }
    \cup { [kind |-> "array", count |-> c, array |-> aa] : aa \in ArrayAggs(c) }

\* v alone, or v before or after a null or string variant seen r times
WithLeaf(v, r) ==
  IF r = 0 THEN { <<v>> }
  ELSE UNION { { <<v, l>>, <<l, v>> } :
                 l \in UNION { LeafVariants(K, r) : K \in {"null", "string"} } }

\* the FieldAggregates present p times of the root property a
RootFields(p) ==
  LeafFields(p)
    \cup UNION { { [presentCount |-> p, variants |-> vs] : vs \in WithLeaf(v, p - c) } :
                   <<c, v>> \in UNION { {c} \X NestedVariants(c) : c \in 1..p } }

\* the root property b: not there, or a string in each of the t documents
SecondProperty(t) ==
  { <<>> } \cup { << [k |-> "b", fa |-> f] >> : f \in FieldsOfKinds({"string"}, t) }

\* the aggregates handed to profileFromAgg: of no document, or of t documents
\* with the property a and perhaps b
SummarizerInputs ==
  { makeObjectAgg }
    \cup UNION { { [totalSeen |-> t, properties |-> << [k |-> "a", fa |-> f] >> \o second] :
                     f \in UNION { RootFields(p) : p \in 1..t },
                     second \in SecondProperty(t) } :
                   t \in 1..MaxSeen }

InitSummarize ==
  /\ agg \in SummarizerInputs
  /\ folded = <<>>
  /\ AggIdle
  /\ OthersIdle

NextSummarize == Summarize

SpecSummarize == InitSummarize /\ [][NextSummarize]_vars

\* the field present c times, each time as a boolean
BooleanField(c) ==
  [presentCount |-> c, variants |-> << [kind |-> "boolean", count |-> c] >>]

\* the ObjectAggregates of the map-heuristic scenario: seen t times, with the
\* boolean properties a and b in either order of discovery
ScenarioObjectAggs(t) ==
  { [totalSeen |-> t,
     properties |-> << [k |-> keys[1], fa |-> BooleanField(c1)],
                       [k |-> keys[2], fa |-> BooleanField(c2)] >>] :
      keys \in { <<"a", "b">>, <<"b", "a">> }, c1 \in 1..t, c2 \in 1..t }

\* the scenario's ObjectAggregate handed to profileFromAgg itself, or held by
\* the object variant of the root property f
ScenarioInputs ==
  UNION { ScenarioObjectAggs(t)
            \cup { [totalSeen |-> t,
                    properties |->
                      << [k |-> "f",
                          fa |-> [presentCount |-> t,
                                  variants |-> << [kind |-> "object", count |-> t,
                                                   object |-> oa] >>]] >>] :
                     oa \in ScenarioObjectAggs(t) } :
          t \in 1..MaxScenarioSeen }

InitScenario ==
  /\ agg \in ScenarioInputs
  /\ folded = <<>>
  /\ AggIdle
  /\ OthersIdle

SpecScenario == InitScenario /\ [][NextSummarize]_vars

RECURSIVE BagTotal(_, _)
\* how many documents the bag holds, counted over the data in S
BagTotal(bag, S) ==
  IF S = {} THEN 0
  ELSE LET c == CHOOSE x \in S : TRUE IN bag[c] + BagTotal(bag, S \ {c})

\* Two calls of buildProfile over the documents of one collection, each handed
\* them in an order of its own: agg takes one order, aggB the other. bagA and
\* bagB hold the documents of docs each forEach has come to; once a callback
\* threw, the documents after it are in docs and are never handed on.
FoldFirst ==
  \E d \in OrderDocs :
    /\ BagTotal(bagA, BagData) < MaxOrderDocs
    /\ IF threw THEN UNCHANGED aggVars ELSE AddDoc(d)
    /\ bagA' = [bagA EXCEPT ![DataOf(d)] = @ + 1]
    /\ UNCHANGED <<aggB, bagB, threwB>>
    /\ UNCHANGED lintVars
    /\ UNCHANGED classVars /\ UNCHANGED copyVars

FoldSecond ==
  \E d \in OrderDocs :
    /\ BagTotal(bagB, BagData) < MaxOrderDocs
    /\ IF threwB THEN UNCHANGED <<aggB, threwB>>
       ELSE /\ aggB' = addObjectSample(aggB, d).v
            /\ threwB' = addObjectSample(aggB, d).threw
    /\ bagB' = [bagB EXCEPT ![DataOf(d)] = @ + 1]
    /\ UNCHANGED <<aggVars, bagA>>
    /\ UNCHANGED lintVars
    /\ UNCHANGED classVars /\ UNCHANGED copyVars

NextOrder == FoldFirst \/ FoldSecond

SpecOrder == InitBuildProfile /\ [][NextOrder]_vars

(* ------------------------- the linter run --------------------------- *)
DocIds == <<"d1", "d2", "d3", "d4", "d5", "d6">>

\* field values the linted documents draw on
LintDocs ==
  { JsObj(<< <<"f", JsStr("x")>> >>),
    JsObj(<< <<"f", JsNum(2)>>, <<"date", JsStr("2024-01-31")>> >>),
    JsObj(<< <<"f", JsObj(<< <<"g", JsNum(3)>> >>)>>, <<"date", JsStr("31/01/2024")>> >>),
    JsObj(<< <<"f", JsNull>>, <<"F", JsArr(<<JsNum(2)>>)>> >>),
    JsObj(<< <<"f", JsObj(<<>>)>>, <<"F", JsDate>> >>),
    JsObj(<< <<"f_", JsTimestamp>>, <<"date", JsNum(5)>> >>),
    JsObj(<< <<"status", JsObj(<< <<"code", JsStr("ab1")>> >>)>>,
             <<"date", JsStr("2024-1-31")>> >>),
    JsObj(<< <<"constructor", JsStr("x")>> >>),
    JsObj(<< <<"é", JsStr("x")>>, <<"É", JsNum(2)>>, <<"1", JsNull>> >>) }

\* a collection: documents in ascending document-id order
Collections ==
  { [i \in 1..Len(q) |-> [id |-> DocIds[i], data |-> q[i]]] : q \in SeqsUpTo(LintDocs, MaxCollection) }

BatchSizes == {1, 2}
SampleLimits == {NoLimit, Limit(0), Limit(1), Limit(2)}
ExampleCaps == {1, 20}

\* the source's rules and one on a nested field, "status.code": /^[A-Z]{3}$/
RegexRules ==
  Append(SourceConfig.STRING_REGEX_RULES,
         [k |-> "status.code", regex |-> "upper3", note |-> "three capitals"])

Configs ==
  { [SourceConfig EXCEPT !.BATCH_SIZE = b, !.SAMPLE_LIMIT = l, !.EXAMPLES_PER_ISSUE = e,
                         !.STRING_REGEX_RULES = RegexRules] :
      b \in BatchSizes, l \in SampleLimits, e \in ExampleCaps }

InitLint ==
  /\ AggInit
  /\ LintIdle
  /\ ClassIdle
  /\ CopyIdle
  /\ collection \in Collections
  /\ config \in Configs
  /\ pc = "get"
  /\ pass = 1

\* a limit test that lets one more document through
limitReachedLate(cfg, seen) == cfg.SAMPLE_LIMIT.js = "number" /\ seen > cfg.SAMPLE_LIMIT.n

\* typeof CONFIG.SAMPLE_LIMIT === "number" && docsSeen >= CONFIG.SAMPLE_LIMIT
limitReached(cfg, seen) == cfg.SAMPLE_LIMIT.js = "number" /\ seen >= cfg.SAMPLE_LIMIT.n

\* col.orderBy(documentId()).startAfter(last.id).limit(BATCH_SIZE).get()
queryAfter(col, after, batchSize) ==
  SubSeq(col, after + 1, IF after + batchSize < Len(col) THEN after + batchSize ELSE Len(col))

\* a run whose catch block went on to the report instead of leaving
onRejectedGoesOn == "report"

\* run's catch block: console.error, then process.exit(1) ends the process
\* there (the finally block's exit(0) is never reached)
onRejected == "error"

\* scanCollectionDocs returns docsSeen: pass 1 goes on to select the expected
\* fields, pass 2 to the report
ScanReturns(seen) ==
  IF pass = 1
  THEN /\ docsScanned' = seen
       /\ pc' = "expected"
  ELSE /\ pc' = "report"
       /\ UNCHANGED docsScanned

\* the head of the while loop: the limit check and the batch read
ScanGet ==
  /\ pc = "get"
  /\ IF limitReached(config, docsSeen)
     THEN ScanReturns(docsSeen) /\ UNCHANGED <<snap, snapPos>>
     ELSE LET got == queryAfter(collection, cursor, config.BATCH_SIZE) IN
            IF Len(got) = 0
            THEN ScanReturns(docsSeen) /\ UNCHANGED <<snap, snapPos>>
            ELSE /\ snap' = got
                 /\ snapPos' = 1
                 /\ pc' = "docs"
                 /\ UNCHANGED docsScanned
  /\ UNCHANGED <<docsSeen, cursor, p1, expectedFields, missingExamples, report, handed>>
  /\ UNCHANGED <<collection, config, pass, failed>>
  /\ UNCHANGED aggVars
  /\ UNCHANGED sideVars
  /\ UNCHANGED classVars /\ UNCHANGED copyVars

\* one turn of "for (const doc of snap.docs)", and after its last turn the
\* tail of the while loop
ScanDoc ==
  /\ pc = "docs"
  /\ LET doc == snap[snapPos] IN
       /\ docsSeen' = docsSeen + 1
       /\ handed' = [handed EXCEPT ![pass] = Append(@, doc)]
       /\ IF pass = 1
          THEN /\ p1' = pass1OnDoc(p1, doc, config)
               /\ UNCHANGED missingExamples
          ELSE /\ missingExamples' = pass2OnDoc(missingExamples, expectedFields, doc, config)
               /\ UNCHANGED p1
       /\ IF pass = 1 /\ pass1Throws(doc, config)
          THEN /\ failed' = TRUE
               /\ pc' = onRejected
               /\ UNCHANGED <<cursor, snap, snapPos, docsScanned>>
          ELSE /\ UNCHANGED failed
               /\ IF limitReached(config, docsSeen + 1) \/ snapPos = Len(snap)
                  THEN /\ cursor' = cursor + Len(snap)
                       /\ UNCHANGED <<snap, snapPos>>
                       /\ IF Len(snap) < config.BATCH_SIZE
                          THEN ScanReturns(docsSeen + 1)
                          ELSE pc' = "get" /\ UNCHANGED docsScanned
                  ELSE /\ snapPos' = snapPos + 1
                       /\ UNCHANGED <<cursor, snap, pc, docsScanned>>
  /\ UNCHANGED <<expectedFields, report, collection, config, pass>>
  /\ UNCHANGED aggVars
  /\ UNCHANGED sideVars
  /\ UNCHANGED classVars /\ UNCHANGED copyVars

\* pct >= CONFIG.REQUIRED_THRESHOLD on the unrounded ratio
isExpected(stat, totalDocs, cfg) ==
  IF totalDocs # 0
  THEN 10000 * stat.presentCount >= cfg.REQUIRED_THRESHOLD * totalDocs
  ELSE 0 >= cfg.REQUIRED_THRESHOLD

\* run, between the passes: the expected fields, then pass 2 if there are any
SelectExpected ==
  /\ pc = "expected"
  /\ LET Kept(e) == isExpected(e.stat, p1.totalDocs, config)
         kept == SelectSeq(p1.fieldStats, Kept)
         expected == [i \in 1..Len(kept) |-> kept[i].k]
     IN /\ expectedFields' = expected
        /\ missingExamples' = <<>>
        /\ IF Len(expected) > 0
           THEN /\ pass' = 2
                /\ pc' = "get"
                /\ docsSeen' = 0
                /\ cursor' = 0
           ELSE /\ pc' = "report"
                /\ UNCHANGED <<pass, docsSeen, cursor>>
  /\ UNCHANGED <<snap, snapPos, p1, docsScanned, report, handed, collection, config, failed>>
  /\ UNCHANGED aggVars
  /\ UNCHANGED sideVars
  /\ UNCHANGED classVars /\ UNCHANGED copyVars

\* run: buildReport and console.log(toYAML(report))
Report ==
  /\ pc = "report"
  /\ report' = buildReport(config.COLLECTION_PATH, p1.totalDocs, docsScanned,
                           p1.fieldStats, p1.variantGroups, missingExamples, config)
  /\ pc' = "done"
  /\ UNCHANGED <<collection, config, pass, docsSeen, cursor, snap, snapPos, p1,
                 docsScanned, expectedFields, missingExamples, handed, failed>>
  /\ UNCHANGED aggVars
  /\ UNCHANGED sideVars
  /\ UNCHANGED classVars /\ UNCHANGED copyVars

\* "await q.get()" rejects: the exception leaves scanCollectionDocs and the
\* pass that called it, and lands in run's catch block
ScanFail ==
  /\ pc = "get"
  /\ ~limitReached(config, docsSeen)
  /\ failed' = TRUE
  /\ pc' = onRejected
  /\ UNCHANGED <<collection, config, pass, docsSeen, cursor, snap, snapPos, p1,
                 docsScanned, expectedFields, missingExamples, report, handed>>
  /\ UNCHANGED aggVars
  /\ UNCHANGED sideVars
  /\ UNCHANGED classVars /\ UNCHANGED copyVars

NextLint == ScanGet \/ ScanDoc \/ SelectExpected \/ Report \/ ScanFail

SpecLint == InitLint /\ [][NextLint]_vars

\* Runs of the linter under other thresholds: fields f and g, each present in
\* some of the documents
ThresholdDocs ==
  { JsObj(<< <<"f", JsStr("x")>> >>),
    JsObj(<< <<"g", JsNum(2)>> >>),
    JsObj(<< <<"f", JsStr("y")>>, <<"g", JsNum(4)>> >>),
    JsObj(<< <<"f", JsNum(2)>>, <<"G", JsBool(TRUE)>>, <<"date", JsStr("1 May")>> >>),
    JsObj(<<>>) }

ThresholdCollections ==
  { [i \in 1..Len(q) |-> [id |-> DocIds[i], data |-> q[i]]] :
      q \in SeqsUpTo(ThresholdDocs, MaxThresholdDocs) }

\* 0.9 and 0.05 are the source's values; 1.5 is no fraction at all
RequiredThresholds == {9000, 6667, 5000, 15000}
RareFieldMaxPcts == {500, 3333, 5000}

ThresholdConfigs ==
  { [SourceConfig EXCEPT !.BATCH_SIZE = 2, !.EXAMPLES_PER_ISSUE = e,
                         !.REQUIRED_THRESHOLD = t, !.RARE_FIELD_MAX_PCT = r] :
      e \in ExampleCaps, t \in RequiredThresholds, r \in RareFieldMaxPcts }

InitThresholds ==
  /\ AggInit
  /\ LintIdle
  /\ ClassIdle
  /\ CopyIdle
  /\ collection \in ThresholdCollections
  /\ config \in ThresholdConfigs
  /\ pc = "get"
  /\ pass = 1

SpecThresholds == InitThresholds /\ [][NextLint]_vars

\* A collection in which 40 documents spell a field firstName and 2 spell it
\* first_name, linted under the source's own CONFIG.
FirstNameDocs == 40
First_nameDocs == 2   \* the two documents sit at any two places of the scan order

NameDocId(i) == "n" \o DigitStr(i \div 10) \o DigitStr(i % 10)

NameCollections ==
  LET n == FirstNameDocs + First_nameDocs
  IN { [i \in 1..n |->
          [id |-> NameDocId(i),
           data |-> IF i \in at THEN JsObj(<< <<"first_name", JsStr("Bo")>> >>)
                    ELSE JsObj(<< <<"firstName", JsStr("Al")>> >>)]] :
         at \in { {a, b} : a \in 1..n, b \in 1..n } \ { {a} : a \in 1..n } }

InitNames ==
  /\ AggInit
  /\ LintIdle
  /\ ClassIdle
  /\ CopyIdle
  /\ collection \in NameCollections
  /\ config = SourceConfig
  /\ pc = "get"
  /\ pass = 1

SpecNames == InitNames /\ [][NextLint]_vars

(* ------------------------- the classifier alone ---------------------- *)
\* values a caller can hand to detectKind: every kind of Firestore value and
\* JavaScript values that are none
ProbeAtoms ==
  { JsNull, JsUndefined, JsBool(TRUE), JsBool(FALSE), JsNum(0), JsNum(3), JsNaN,
    JsStr(""), JsStr("x"), JsTimestamp, JsGeoPoint, JsRef, JsBuffer, JsUint8Array,
    JsDate, JsFunction, JsSymbol, JsBigInt, JsMap }

ProbeValues ==
  ProbeAtoms
    \cup { JsArr(els) : els \in SeqsUpTo(ProbeAtoms, MaxProbeLen) }
    \cup { JsObj([i \in 1..Len(els) |-> <<DocIds[i], els[i]>>]) :
             els \in SeqsUpTo(ProbeAtoms, MaxProbeLen) }

InitClassify ==
  /\ AggInit
  /\ LintIdle
  /\ collection = <<>>
  /\ config = SourceConfig
  /\ pc = "idle"
  /\ pass = 1
  /\ probe \in ProbeValues
  /\ probeKind = "pending"
  /\ CopyIdle

\* const kind = detectKind(value) in lintCollectionSchema.js (line 203)
Classify ==
  /\ probeKind = "pending"
  /\ probeKind' = detectKind(probe)
  /\ UNCHANGED probe
  /\ UNCHANGED aggVars
  /\ UNCHANGED sideVars
  /\ UNCHANGED lintVars
  /\ UNCHANGED copyVars

\* const kind = detectKind(value) in inferSchema.js (line 57): the call
\* returns a kind or ends in a ReferenceError
ClassifyInInferSchema ==
  /\ probeKind = "pending"
  /\ probeKind' = IF detectKindThrows(probe) THEN "ReferenceError" ELSE detectKind(probe)
  /\ UNCHANGED probe
  /\ UNCHANGED aggVars
  /\ UNCHANGED sideVars
  /\ UNCHANGED lintVars
  /\ UNCHANGED copyVars

NextClassify == Classify \/ ClassifyInInferSchema

SpecClassify == InitClassify /\ [][NextClassify]_vars

(* ------------------- the two scans of a quiet store ------------------ *)
\* documents that differ only in whether they hold the field f
\* the third document has a string field named like a property that the
\* rules object inherits
ScanDocs ==
  { JsObj(<< <<"f", JsStr("x")>> >>), JsObj(<<>>),
    JsObj(<< <<"constructor", JsStr("x")>> >>) }

ScanCollections ==
  { [i \in 1..Len(q) |-> [id |-> DocIds[i], data |-> q[i]]] :
      q \in SeqsUpTo(ScanDocs, MaxScanDocs) }

ScanBatchSizes == {1, 2, 3}
ScanLimits == {NoLimit, Limit(0), Limit(1), Limit(2), Limit(3)}

ScanConfigs ==
  { [SourceConfig EXCEPT !.BATCH_SIZE = b, !.SAMPLE_LIMIT = l] :
      b \in ScanBatchSizes, l \in ScanLimits }

InitScan ==
  /\ AggInit
  /\ LintIdle
  /\ ClassIdle
  /\ CopyIdle
  /\ collection \in ScanCollections
  /\ config \in ScanConfigs
  /\ pc = "get"
  /\ pass = 1

\* a run all of whose batch reads resolve
NextScan == ScanGet \/ ScanDoc \/ SelectExpected \/ Report

\* every awaited read resolves, so the loop and run go on while they can
SpecScan == InitScan /\ [][NextScan]_vars /\ WF_vars(NextScan)

(* ----------------------- the copyCollection run ---------------------- *)
InitCopy ==
  /\ AggInit
  /\ LintIdle
  /\ ClassIdle
  /\ collection = <<>>
  /\ config = SourceConfig
  /\ pc = "idle"
  /\ pass = 1
  /\ copyConfig \in CopyConfigs
  /\ source \in SourceTrees
  /\ original = source
  /\ dest = {}
  /\ batch = makeBatcher
  /\ copyPc = "start"
  /\ snapshotDocs = <<>>
  /\ position = 0
  /\ processedCount = 0
  /\ copiedCount = 0
  /\ errorCount = 0
  /\ roundWrites = <<>>

CopyOthersUnchanged ==
  /\ UNCHANGED aggVars
  /\ UNCHANGED sideVars
  /\ UNCHANGED lintVars
  /\ UNCHANGED classVars

StoreNow == [source |-> source, dest |-> dest, batch |-> batch, threw |-> FALSE]

\* copyCollection: const snapshot = await db.collection(SOURCE_COLLECTION).get();
\* an empty snapshot or a rejected read ends the run
CopyRead ==
  /\ copyPc = "start"
  /\ \E rejected \in BOOLEAN :
       LET docs == docsOf(source, <<>>)
       IN IF rejected \/ Len(docs) = 0
          THEN copyPc' = "exited" /\ UNCHANGED <<snapshotDocs, batch>>
          ELSE copyPc' = "copy" /\ snapshotDocs' = docs /\ batch' = makeBatcher
  /\ position' = 0
  /\ UNCHANGED <<copyConfig, source, dest, original, processedCount, copiedCount, errorCount,
                 roundWrites>>
  /\ CopyOthersUnchanged

\* a round of "for (const doc of snapshot.docs)" begins: processedCount++ and
\* the call of copyDocRecursive, up to its first await
CopyDoc ==
  /\ copyPc = "copy"
  /\ position < Len(snapshotDocs)
  /\ processedCount' = processedCount + 1
  /\ roundWrites' = Writes("set", copyDocRecursive(source, snapshotDocs[position + 1], copyConfig))
  /\ copyPc' = "copying"
  /\ UNCHANGED <<copyConfig, source, dest, original, batch, snapshotDocs, position,
                 copiedCount, errorCount>>
  /\ CopyOthersUnchanged

\* copyDocRecursive reaches its next document: the reads before it (the
\* document's get, listCollections and subcol.get on the way to it) resolve
\* or one of them rejects, then batcher.set up to "await maybeCommit()";
\* what is thrown ends the round in the catch block
CopyWrite ==
  /\ copyPc = "copying"
  /\ roundWrites # <<>>
  /\ \E rejected \in BOOLEAN :
       LET st == IF rejected THEN [StoreNow EXCEPT !.threw = TRUE]
                 ELSE batcherWrite(StoreNow, Head(roundWrites), copyConfig)
       IN /\ batch' = st.batch
          /\ IF st.threw
             THEN /\ errorCount' = errorCount + 1
                  /\ position' = position + 1
                  /\ roundWrites' = <<>>
                  /\ copyPc' = "copy"
             ELSE /\ roundWrites' = Tail(roundWrites)
                  /\ copyPc' = IF ~copyConfig.DRY_RUN /\ maybeCommit(st, copyConfig.BATCH_SIZE)
                               THEN "copyCommit" ELSE "copying"
                  /\ UNCHANGED <<errorCount, position>>
  /\ UNCHANGED <<copyConfig, source, dest, original, snapshotDocs, processedCount, copiedCount>>
  /\ CopyOthersUnchanged

\* copyDocRecursive returns to the loop after its last read (listCollections
\* of the last document, when subcollections are included): copiedCount++,
\* or errorCount++ in the catch block when that read rejected
CopyDocEnd ==
  /\ copyPc = "copying"
  /\ roundWrites = <<>>
  /\ \E rejected \in (IF copyConfig.INCLUDE_SUBCOLLECTIONS THEN BOOLEAN ELSE {FALSE}) :
       IF rejected
       THEN errorCount' = errorCount + 1 /\ UNCHANGED copiedCount
       ELSE copiedCount' = copiedCount + 1 /\ UNCHANGED errorCount
  /\ position' = position + 1
  /\ copyPc' = "copy"
  /\ UNCHANGED <<copyConfig, source, dest, original, batch, snapshotDocs, processedCount,
                 roundWrites>>
  /\ CopyOthersUnchanged

\* "await batch.commit()" of maybeCommit settles: resolved, the writes are in
\* the store and the batcher has a new batch; rejected, the exception ends the
\* copy round in its catch block, and the delete in copyCollection's
Commit ==
  /\ copyPc \in {"copyCommit", "deleteCommit"}
  /\ \E rejected \in BOOLEAN :
       LET st == commitBatch(StoreNow, rejected)
       IN /\ source' = st.source
          /\ dest' = st.dest
          /\ batch' = st.batch
          /\ IF ~st.threw
             THEN /\ copyPc' = IF copyPc = "copyCommit" THEN "copying" ELSE "deletingDoc"
                  /\ UNCHANGED <<errorCount, position, roundWrites>>
             ELSE /\ roundWrites' = <<>>
                  /\ IF copyPc = "copyCommit"
                     THEN /\ errorCount' = errorCount + 1
                          /\ position' = position + 1
                          /\ copyPc' = "copy"
                     ELSE /\ copyPc' = "exited"
                          /\ UNCHANGED <<errorCount, position>>
  /\ UNCHANGED <<copyConfig, original, snapshotDocs, processedCount, copiedCount>>
  /\ CopyOthersUnchanged

\* after the loop: await batcher.flush(), the summary, and the choice between
\* deleting the source and leaving
CopyFinish ==
  /\ copyPc = "copy"
  /\ position = Len(snapshotDocs)
  /\ \E rejected \in BOOLEAN :
       LET st == flush(StoreNow, copyConfig, rejected)
       IN /\ source' = st.source
          /\ dest' = st.dest
          /\ batch' = st.batch
          /\ copyPc' = IF /\ ~st.threw
                          /\ ~copyConfig.DRY_RUN
                          /\ errorCount = 0
                          /\ processedCount > 0
                          /\ copyConfig.IS_DESTRUCTIVE
                       THEN "delete" ELSE "exited"
  /\ UNCHANGED <<copyConfig, original, snapshotDocs, position, processedCount, copiedCount,
                 errorCount, roundWrites>>
  /\ CopyOthersUnchanged

\* deleteCollectionRecursive: a batcher of its own and a fresh snapshot
DeleteRead ==
  /\ copyPc = "delete"
  /\ \E rejected \in BOOLEAN :
       LET docs == docsOf(source, <<>>)
       IN IF rejected \/ Len(docs) = 0
          THEN copyPc' = "exited" /\ UNCHANGED snapshotDocs
          ELSE copyPc' = "deleting" /\ snapshotDocs' = docs
  /\ batch' = makeBatcher
  /\ position' = 0
  /\ UNCHANGED <<copyConfig, source, dest, original, processedCount, copiedCount, errorCount,
                 roundWrites>>
  /\ CopyOthersUnchanged

\* a round of its loop begins: the call of deleteDocRecursive, up to its
\* first await
DeleteDoc ==
  /\ copyPc = "deleting"
  /\ position < Len(snapshotDocs)
  /\ roundWrites' = Writes("delete", deleteDocRecursive(source, snapshotDocs[position + 1]))
  /\ copyPc' = "deletingDoc"
  /\ UNCHANGED <<copyConfig, source, dest, original, batch, snapshotDocs, position,
                 processedCount, copiedCount, errorCount>>
  /\ CopyOthersUnchanged

\* deleteDocRecursive reaches its next document: the reads before it
\* (listCollections and subcol.get) resolve or one of them rejects, then
\* batcher.delete up to "await maybeCommit()"; what is thrown ends the run
DeleteWrite ==
  /\ copyPc = "deletingDoc"
  /\ roundWrites # <<>>
  /\ \E rejected \in BOOLEAN :
       LET st == IF rejected THEN [StoreNow EXCEPT !.threw = TRUE]
                 ELSE batcherWrite(StoreNow, Head(roundWrites), copyConfig)
       IN /\ batch' = st.batch
          /\ IF st.threw
             THEN roundWrites' = <<>> /\ copyPc' = "exited"
             ELSE /\ roundWrites' = Tail(roundWrites)
                  /\ copyPc' = IF maybeCommit(st, copyConfig.BATCH_SIZE)
                               THEN "deleteCommit" ELSE "deletingDoc"
  /\ UNCHANGED <<copyConfig, source, dest, original, snapshotDocs, position, processedCount,
                 copiedCount, errorCount>>
  /\ CopyOthersUnchanged

\* deleteDocRecursive returns to the loop
DeleteDocEnd ==
  /\ copyPc = "deletingDoc"
  /\ roundWrites = <<>>
  /\ position' = position + 1
  /\ copyPc' = "deleting"
  /\ UNCHANGED <<copyConfig, source, dest, original, batch, snapshotDocs, processedCount,
                 copiedCount, errorCount, roundWrites>>
  /\ CopyOthersUnchanged

\* await batcher.flush() at the end of deleteCollectionRecursive
DeleteFinish ==
  /\ copyPc = "deleting"
  /\ position = Len(snapshotDocs)
  /\ \E rejected \in BOOLEAN :
       LET st == flush(StoreNow, copyConfig, rejected)
       IN /\ source' = st.source
          /\ dest' = st.dest
          /\ batch' = st.batch
  /\ copyPc' = "exited"
  /\ UNCHANGED <<copyConfig, original, snapshotDocs, position, processedCount, copiedCount,
                 errorCount, roundWrites>>
  /\ CopyOthersUnchanged

NextCopy ==
  \/ CopyRead \/ CopyDoc \/ CopyWrite \/ CopyDocEnd \/ Commit \/ CopyFinish
  \/ DeleteRead \/ DeleteDoc \/ DeleteWrite \/ DeleteDocEnd \/ DeleteFinish

SpecCopy == InitCopy /\ [][NextCopy]_vars

(* ------------------- walking the aggregate tree --------------------- *)
KindsOf(fa) == { fa.variants[i].kind : i \in 1..Len(fa.variants) }
NonNullKindsOf(fa) == KindsOf(fa) \ {"null"}

\* The summary nodes of a summary, each paired with the FieldAggregate it was
\* made from: slot "property" with the totalSeen of the owning ObjectAggregate,
\* slot "items" with the totalSeen of the owning ArrayAggregate.
SummaryUnder(fields, k) == fields[CHOOSE i \in 1..Len(fields) : fields[i].k = k].s

RECURSIVE NodesUnder(_, _)
NodesUnder(fa, s) ==
  LET nonNull == nonNullVariants(fa) IN
  IF Len(nonNull) # 1 THEN {}
  ELSE LET v == nonNull[1] IN
    CASE v.kind = "array" /\ v.array.items # <<>> ->
           { [fa |-> v.array.items[1], s |-> s.items, slot |-> "items",
              parentTotalSeen |-> v.array.totalSeen] }
           \cup NodesUnder(v.array.items[1], s.items)
      [] v.kind = "object" /\ "fields" \in DOMAIN s ->
           UNION { { [fa |-> v.object.properties[j].fa,
                      s |-> SummaryUnder(s.fields, v.object.properties[j].k),
                      slot |-> "property", parentTotalSeen |-> v.object.totalSeen] }
                   \cup NodesUnder(v.object.properties[j].fa,
                                   SummaryUnder(s.fields, v.object.properties[j].k))
                   : j \in 1..Len(v.object.properties) }
      [] OTHER -> {}

SummaryNodes(root, profile) ==
  UNION { { [fa |-> root.properties[j].fa,
             s |-> SummaryUnder(profile.document.fields, root.properties[j].k),
             slot |-> "property", parentTotalSeen |-> root.totalSeen] }
          \cup NodesUnder(root.properties[j].fa,
                          SummaryUnder(profile.document.fields, root.properties[j].k))
          : j \in 1..Len(root.properties) }

\* the latest summary is a summary of the aggregate as it stands
Summarized == sumCalls > 0

Nodes == IF Summarized THEN SummaryNodes(agg, summary) ELSE {}

(* ------------------------------ claims ------------------------------ *)

ObjectNodes ==
  { n \in Nodes : Len(nonNullVariants(n.fa)) = 1 /\ nonNullVariants(n.fa)[1].kind = "object" }

ObjectAggOf(n) == nonNullVariants(n.fa)[1].object

NoStableKey(oa) ==
  \A i \in 1..Len(oa.properties) : oa.properties[i].fa.presentCount # oa.totalSeen

AllPropertiesOfKind(oa, K) ==
  \A i \in 1..Len(oa.properties) : KindsOf(oa.properties[i].fa) = {K}

MapTypes == { "map<string, " \o K \o ">" : K \in ScalarKinds }

\* an object with one sub-summary for each key of the ObjectAggregate
FixedShape(n) ==
  /\ n.s.type = "object"
  /\ Len(n.s.fields) = Len(ObjectAggOf(n).properties)
  /\ { n.s.fields[i].k : i \in 1..Len(n.s.fields) }
       = { ObjectAggOf(n).properties[i].k : i \in 1..Len(ObjectAggOf(n).properties) }
  /\ Cardinality({ n.s.fields[i].k : i \in 1..Len(n.s.fields) }) = Len(n.s.fields)

ShownName(kind, integerOnly) ==
  CASE kind = "number" -> IF integerOnly THEN "integer" ELSE "number"
    [] kind = "reference" -> "documentReference"
    [] kind = "bytes" -> "bytes(base64)"
    [] OTHER -> kind

ShownNamesOf(fa) ==
  { ShownName(fa.variants[i].kind,
              fa.variants[i].kind = "number" /\ fa.variants[i].number.integerOnly) :
      i \in { j \in 1..Len(fa.variants) : fa.variants[j].kind # "null" } }

StrictlyAscending(list) ==
  \A i \in 1..(Len(list) - 1) : StrRank(list[i]) < StrRank(list[i + 1])

ListedNames(list) == { list[i] : i \in 1..Len(list) }

MultiKindNodes == { n \in Nodes : Cardinality(NonNullKindsOf(n.fa)) > 1 }

ThreeBooleans == [presentCount |-> 3, variants |-> << [kind |-> "boolean", count |-> 3] >>]

ScenarioAgg(oa, total) ==
  /\ oa.totalSeen = total
  /\ { oa.properties[i].k : i \in 1..Len(oa.properties) } = {"a", "b"}
  /\ \A i \in 1..Len(oa.properties) : oa.properties[i].fa = ThreeBooleans

BothKeys(list) == Len(list) = 2 /\ { list[i] : i \in 1..2 } = {"a", "b"}

\* a fixed-shape rendering of a and b, both boolean and both required or both not
FixedAB(rec, required) ==
  /\ "fields" \in DOMAIN rec
  /\ BothKeys([i \in 1..Len(rec.fields) |-> rec.fields[i].k])
  /\ \A i \in 1..Len(rec.fields) :
       rec.fields[i].s = [type |-> "boolean", required |-> required, nullable |-> FALSE]
  /\ IF required
     THEN "requiredFields" \in DOMAIN rec /\ BothKeys(rec.requiredFields)
     ELSE "requiredFields" \notin DOMAIN rec

SummaryIgnoresDiscoveryOrder ==
  bagA = bagB =>
    profileFromAgg(COLLECTION_PATH, agg) = profileFromAgg(COLLECTION_PATH, aggB)

(* --------------------------- linter claims --------------------------- *)
RECURSIVE FieldsIn(_, _)
\* every field of a document, at any depth of nested objects, with its value:
\* pairs <<path, value>>, object-valued fields included
FieldsIn(obj, base) ==
  UNION { LET k == obj.entries[i][1]
              v == obj.entries[i][2]
              path == IF base # "" THEN base \o "." \o k ELSE k
          IN { <<path, v>> } \cup (IF v.js = "Object" THEN FieldsIn(v, path) ELSE {})
          : i \in 1..Len(obj.entries) }

\* what pass 1 was shown: the fields of the documents handed to its callback
ScannedFields == UNION { FieldsIn(handed[1][i].data, "") : i \in 1..Len(handed[1]) }

ScannedPaths == { pv[1] : pv \in ScannedFields }

\* the non-null kinds the classifier gives the values seen at path F
NonNullKindsAt(F) == { detectKind(pv[2]) : pv \in { x \in ScannedFields : x[1] = F } } \ {"null"}

MismatchReported(F) ==
  /\ "type_mismatches" \in DOMAIN report.issues
  /\ \E i \in 1..Len(report.issues.type_mismatches) :
       report.issues.type_mismatches[i].field = F

\* C10: the report has a type_mismatches issue for field F iff at least two
\* distinct non-null kinds (unknown, object and array counting like any other
\* kind) were observed for F in the scanned documents.
MismatchIffMultiKind ==
  pc = "done" =>
    \A F \in ScannedPaths : MismatchReported(F) <=> Cardinality(NonNullKindsAt(F)) >= 2

\* the leaf paths of a document: the path of every field, at any depth of
\* nested objects, whose value is not itself a nested object
LeafPaths(data) == { pv[1] : pv \in { x \in FieldsIn(data, "") : x[2].js # "Object" } }

\* the paths pass 1 was shown, and in how many of its documents each occurs
ObservedPaths == UNION { LeafPaths(handed[1][i].data) : i \in 1..Len(handed[1]) }

PresentIn(F) == Cardinality({ i \in 1..Len(handed[1]) : F \in LeafPaths(handed[1][i].data) })

ScannedCount == Len(handed[1])

\* a section of the report's issues block, empty when the block leaves it out
MissingIssues ==
  IF "missing_fields" \in DOMAIN report.issues THEN report.issues.missing_fields ELSE <<>>

MissingIssuesOf(F) == { i \in 1..Len(MissingIssues) : MissingIssues[i].field = F }

ExampleIdsOf(issue) ==
  IF "example_doc_ids" \in DOMAIN issue THEN issue.example_doc_ids ELSE <<>>

\* C11: a missing_fields issue is emitted for field F iff
\* presentCount(F)/totalDocs >= requiredThreshold and presentCount(F) < totalDocs,
\* its missing_count is totalDocs - presentCount(F), and a field whose presence
\* fraction is below the threshold is never flagged as missing.
MissingIffExpectedAndShort ==
  pc = "done" =>
    \A F \in ObservedPaths :
      /\ MissingIssuesOf(F) # {}
           <=> /\ 10000 * PresentIn(F) >= config.REQUIRED_THRESHOLD * ScannedCount
               /\ PresentIn(F) < ScannedCount
      /\ \A i \in MissingIssuesOf(F) :
            MissingIssues[i].missing_count = ScannedCount - PresentIn(F)

\* C12: the example id list of a field's missing-field issue has at most
\* examplesPerIssue entries, and it is non-empty iff the field's deficit count
\* (totalDocs - presentCount) is above zero.
MissingExamplesBounded ==
  pc = "done" =>
    \A i \in 1..Len(MissingIssues) :
      LET ids == ExampleIdsOf(MissingIssues[i])
      IN /\ Len(ids) <= config.EXAMPLES_PER_ISSUE
         /\ Len(ids) > 0 <=> ScannedCount - PresentIn(MissingIssues[i].field) > 0

\* the value a document holds at leaf path P
ValueAt(data, P) == (CHOOSE pv \in FieldsIn(data, "") : pv[1] = P /\ pv[2].js # "Object")[2]

\* the documents pass 1 was shown, in scan order, whose value at rule.k is a
\* string that fails the rule's pattern, as pairs of document id and value
ViolationsOf(rule) ==
  LET Fails(doc) == /\ rule.k \in LeafPaths(doc.data)
                    /\ detectKind(ValueAt(doc.data, rule.k)) = "string"
                    /\ ~regexTest(rule.regex, ValueAt(doc.data, rule.k).s)
      bad == SelectSeq(handed[1], Fails)
  IN [i \in 1..Len(bad) |-> [doc |-> bad[i].id, value |-> ValueAt(bad[i].data, rule.k)]]

FirstOf(seq, n) == SubSeq(seq, 1, IF Len(seq) < n THEN Len(seq) ELSE n)

RecordedViolations(P) ==
  IF entryIndex(p1.fieldStats, P) = 0 THEN <<>> ELSE statOf(p1.fieldStats, P).regexViolations

RegexIssues ==
  IF "regex_violations" \in DOMAIN report.issues THEN report.issues.regex_violations ELSE <<>>

RegexIssuesOf(P) == { i \in 1..Len(RegexIssues) : RegexIssues[i].field = P }

Rules == { config.STRING_REGEX_RULES[i] : i \in 1..Len(config.STRING_REGEX_RULES) }

\* C13: for a configured regex rule on field path P the recorded violations
\* are exactly the first min(N, v) (document id, raw value) pairs in scan
\* order, v counting the scanned documents whose value at P is a string that
\* fails the pattern and N = examplesPerIssue; values of another kind are
\* never recorded, and a rule whose field never appears (or never fails)
\* produces no regex_violations issue.
RegexViolationsAreFirstFailures ==
  \A rule \in Rules :
    LET first == FirstOf(ViolationsOf(rule), config.EXAMPLES_PER_ISSUE)
    IN /\ RecordedViolations(rule.k) = first
       /\ pc = "done" =>
            /\ Cardinality(RegexIssuesOf(rule.k)) = (IF Len(first) > 0 THEN 1 ELSE 0)
            /\ \A i \in RegexIssuesOf(rule.k) : RegexIssues[i].examples = first
            /\ rule.k \notin ObservedPaths => RegexIssuesOf(rule.k) = {}

\* a finished run with one example per issue in which the date rule was failed
\* by two documents and met a number, the nested rule was failed too, and the
\* time rule's field never appeared
RegexWitness ==
  /\ pc = "done"
  /\ config.EXAMPLES_PER_ISSUE = 1
  /\ \E rule \in Rules :
        /\ rule.k = "date"
        /\ Len(ViolationsOf(rule)) >= 2
        /\ Len(RecordedViolations("date")) = 1
        /\ RegexIssuesOf("date") # {}
  /\ \E i \in 1..Len(handed[1]) :
        /\ "date" \in LeafPaths(handed[1][i].data)
        /\ ValueAt(handed[1][i].data, "date").js = "number"
  /\ RegexIssuesOf("status.code") # {}
  /\ "time" \notin ObservedPaths /\ RegexIssuesOf("time") = {}

RareIssues ==
  IF "rare_fields" \in DOMAIN report.issues THEN report.issues.rare_fields ELSE <<>>

RareIssuesOf(F) == { i \in 1..Len(RareIssues) : RareIssues[i].field = F }

\* the ids of the documents pass 1 was shown that hold a value at leaf path F
IdsContaining(F) ==
  { handed[1][i].id : i \in { j \in 1..Len(handed[1]) : F \in LeafPaths(handed[1][j].data) } }

\* C14: a rare_fields issue is emitted for field F iff
\* presentCount(F)/totalDocs <= rareFieldMaxFraction, and the issue carries
\* F's presentCount, its presence fraction (as the report shows fractions, to
\* four decimals) and example ids of documents that contain F.
RareIffAtMostMax ==
  pc = "done" =>
    \A F \in ObservedPaths :
      /\ RareIssuesOf(F) # {}
           <=> 10000 * PresentIn(F) <= config.RARE_FIELD_MAX_PCT * ScannedCount
      /\ \A i \in RareIssuesOf(F) :
            /\ RareIssues[i].present_count = PresentIn(F)
            /\ RareIssues[i].present_pct = Round4(PresentIn(F), ScannedCount)
            /\ ExampleIdsOf(RareIssues[i]) # <<>>
            /\ \A j \in 1..Len(ExampleIdsOf(RareIssues[i])) :
                  ExampleIdsOf(RareIssues[i])[j] \in IdsContaining(F)

VariantGroupsReported ==
  IF "field_name_variants" \in DOMAIN report.issues
  THEN report.issues.field_name_variants ELSE <<>>

GroupsOf(key) ==
  { i \in 1..Len(VariantGroupsReported) : VariantGroupsReported[i].normalized = key }

RECURSIVE Without(_, _)
\* str without the characters of the set drop
Without(str, drop) ==
  IF Len(str) = 0 THEN ""
  ELSE (IF Ch(str, 1) \in drop THEN "" ELSE Ch(str, 1))
         \o Without(SubSeq(str, 2, Len(str)), drop)

RECURSIVE Lowercased(_)
\* str with every letter in its lower case
Lowercased(str) ==
  IF Len(str) = 0 THEN ""
  ELSE Lowercased(SubSeq(str, 1, Len(str) - 1)) \o LowerCase(Ch(str, Len(str)))

\* the key a path is grouped under: path separators and underscores removed,
\* then lowercased
NormalizedKey(F) == Lowercased(Without(F, {".", "_"}))

PathsOfKey(key) == { F \in ObservedPaths : NormalizedKey(F) = key }

ObservedKeys == { NormalizedKey(F) : F \in ObservedPaths }

\* C15: with the variants check on, a field_name_variants group is reported
\* for a normalized key (path lowercased, '.' and '_' removed) iff at least
\* two distinct observed field paths normalize to that key, and the group's
\* canonical path is one whose presentCount is maximal among the group's paths.
VariantGroupIffSeveralPaths ==
  (pc = "done" /\ config.CHECK_FIELD_NAME_VARIANTS) =>
    /\ \A i \in 1..Len(VariantGroupsReported) :
          VariantGroupsReported[i].normalized \in ObservedKeys
    /\ \A key \in ObservedKeys :
          /\ Cardinality(GroupsOf(key)) = (IF Cardinality(PathsOfKey(key)) >= 2 THEN 1 ELSE 0)
          /\ \A i \in GroupsOf(key) :
                /\ VariantGroupsReported[i].canonical \in PathsOfKey(key)
                /\ \A G \in PathsOfKey(key) :
                      PresentIn(VariantGroupsReported[i].canonical) >= PresentIn(G)

\* a finished run with a group whose canonical path was not the first of its
\* paths to be seen, next to a key that only one path normalizes to
VariantGroupWitness ==
  /\ pc = "done"
  /\ config.CHECK_FIELD_NAME_VARIANTS
  /\ \E i \in 1..Len(VariantGroupsReported) :
        LET g == VariantGroupsReported[i]
            seen == p1.variantGroups[entryIndex(p1.variantGroups, g.normalized)].paths
        IN /\ g.canonical # seen[1]
           /\ PresentIn(g.canonical) > PresentIn(seen[1])
  /\ \E key \in ObservedKeys : Cardinality(PathsOfKey(key)) = 1 /\ GroupsOf(key) = {}

VariantFieldsOf(g) == { g.variants[j].field : j \in 1..Len(g.variants) }

OwnCounts(g) ==
  \A j \in 1..Len(g.variants) : g.variants[j].present_count = PresentIn(g.variants[j].field)

IsNamesScenario == PresentIn("firstName") = 40 /\ PresentIn("first_name") = 2

\* C16: the variants list of a group contains exactly the
\* non-canonical paths, each with its own presentCount; with firstName in 40
\* documents and first_name in 2 the group has canonical firstName and exactly
\* one variant entry (first_name, count 2).
VariantsListOmitsCanonical ==
  pc = "done" =>
    /\ \A i \in 1..Len(VariantGroupsReported) :
          LET g == VariantGroupsReported[i]
          IN /\ VariantFieldsOf(g) = PathsOfKey(g.normalized) \ {g.canonical}
             /\ Len(g.variants) = Cardinality(VariantFieldsOf(g))
             /\ OwnCounts(g)
    /\ IsNamesScenario =>
          /\ Len(VariantGroupsReported) = 1
          /\ VariantGroupsReported[1].canonical = "firstName"
          /\ VariantGroupsReported[1].variants
                = << [field |-> "first_name", present_count |-> 2] >>

\* the kind each JavaScript type stands for; a type not listed stands for none
KindOfType ==
  [ null |-> "null", boolean |-> "boolean", number |-> "number", string |-> "string",
    Timestamp |-> "timestamp", GeoPoint |-> "geopoint", DocumentReference |-> "reference",
    Buffer |-> "bytes", Uint8Array |-> "bytes", Array |-> "array", Object |-> "object" ]

\* C17: each of the two classifiers returns, for every input, exactly one
\* kind of the closed set; a timestamp, geopoint, reference or bytes value is
\* never classified as object or array (it gets its own kind), and a value
\* matching no known kind is classified unknown, not an error.
ClassifierIsTotalAndOrdered ==
  probeKind # "pending" =>
    /\ probeKind \in Kinds
    /\ probe.js \in {"Timestamp", "GeoPoint", "DocumentReference", "Buffer", "Uint8Array"}
         => probeKind \notin {"object", "array"}
    /\ probe.js \in DOMAIN KindOfType => probeKind = KindOfType[probe.js]
    /\ probe.js \notin DOMAIN KindOfType => probeKind = "unknown"

\* what the spec calls a valid configuration: thresholds that are fractions
\* (here in ten-thousandths) and at least one example per issue
ConfigIsValid(cfg) ==
  /\ 0 <= cfg.REQUIRED_THRESHOLD /\ cfg.REQUIRED_THRESHOLD <= 10000
  /\ 0 <= cfg.RARE_FIELD_MAX_PCT /\ cfg.RARE_FIELD_MAX_PCT <= 10000
  /\ cfg.EXAMPLES_PER_ISSUE >= 1

\* C18: a configuration error (a threshold outside its valid range, ...)
\* makes the run fail before any document is read, with a terminal error: no
\* document is ever scanned, and no report made, under an invalid
\* configuration.
InvalidConfigScansNothing ==
  ~ConfigIsValid(config) =>
    /\ Len(handed[1]) = 0 /\ Len(handed[2]) = 0
    /\ snap = <<>>
    /\ report = NoReport

\* C19: if a batch read rejects at any point of pass 1 or pass 2, the run
\* aborts: it ends in the error outcome and no report, complete or partial,
\* is emitted then or later.
FailedRunEmitsNoReport ==
  failed => pc = "error" /\ report = NoReport

\* a read of pass 2 rejected after pass 1 had gathered statistics
FailedRunWitness ==
  /\ failed
  /\ pass = 2
  /\ Len(handed[1]) >= 2
  /\ Len(handed[2]) >= 1
  /\ Len(p1.fieldStats) > 0

\* C20: when sampleLimit is an integer L, scanCollectionDocs hands at most L
\* documents to its callback in each pass, for every collection size and
\* batch size (so docs_scanned <= L).
SampleLimitBoundsHandedDocs ==
  config.SAMPLE_LIMIT.js = "number" =>
    /\ Len(handed[1]) <= config.SAMPLE_LIMIT.n
    /\ Len(handed[2]) <= config.SAMPLE_LIMIT.n
    /\ docsSeen <= config.SAMPLE_LIMIT.n
    /\ docsScanned <= config.SAMPLE_LIMIT.n
    /\ pc = "done" => report.meta.docs_scanned <= config.SAMPLE_LIMIT.n

\* a finished run over three documents read in batches of two whose limit of
\* one stopped both passes inside the first batch
SampleLimitWitness ==
  /\ pc = "done"
  /\ config.SAMPLE_LIMIT = Limit(1)
  /\ config.BATCH_SIZE = 2
  /\ Len(collection) = 3
  /\ Len(handed[1]) = 1 /\ Len(handed[2]) = 1
  /\ report.meta.docs_scanned = 1

\* what each of the five checks finds in the documents pass 1 was shown: a
\* field at or above the required fraction that some document lacks, a field
\* seen with two non-null kinds, a string that fails its rule, a field at or
\* below the rare fraction, two paths under one normalized key
FoundMissing ==
  \E F \in ObservedPaths :
     /\ 10000 * PresentIn(F) >= config.REQUIRED_THRESHOLD * ScannedCount
     /\ PresentIn(F) < ScannedCount

FoundMismatch == \E F \in ScannedPaths : Cardinality(NonNullKindsAt(F)) >= 2

FoundRegex ==
  config.EXAMPLES_PER_ISSUE >= 1 /\ \E rule \in Rules : Len(ViolationsOf(rule)) > 0

FoundRare ==
  \E F \in ObservedPaths :
     10000 * PresentIn(F) <= config.RARE_FIELD_MAX_PCT * ScannedCount

FoundVariants ==
  config.CHECK_FIELD_NAME_VARIANTS /\ \E key \in ObservedKeys : Cardinality(PathsOfKey(key)) >= 2

SectionOk(name, found) ==
  /\ name \in DOMAIN report.issues <=> found
  /\ name \in DOMAIN report.issues => Len(report.issues[name]) > 0

\* C21: in the final report each of the five issue sub-sections is absent iff
\* zero issues of that kind were found, and a present sub-section is a
\* non-empty list.
SectionAbsentIffNoIssues ==
  pc = "done" =>
    /\ SectionOk("missing_fields", FoundMissing)
    /\ SectionOk("type_mismatches", FoundMismatch)
    /\ SectionOk("regex_violations", FoundRegex)
    /\ SectionOk("rare_fields", FoundRare)
    /\ SectionOk("field_name_variants", FoundVariants)
    /\ DOMAIN report.issues \subseteq
         {"missing_fields", "type_mismatches", "regex_violations", "rare_fields",
          "field_name_variants"}

\* the kinds of the values pass 1 was shown at field path F
KindsAt(F) == { detectKind(pv[2]) : pv \in { x \in ScannedFields : x[1] = F } }

\* the ids, in scan order, of the documents pass 1 was shown that hold a value
\* of kind k at field path F
IdsOfKind(F, k) ==
  LET Has(doc) == \E pv \in FieldsIn(doc.data, "") : pv[1] = F /\ detectKind(pv[2]) = k
      docs == SelectSeq(handed[1], Has)
  IN [i \in 1..Len(docs) |-> docs[i].id]

\* a list kept under key k in a sequence of entries, <<>> when there is none
ListUnder(entries, k) ==
  IF entryIndex(entries, k) = 0 THEN <<>> ELSE entries[entryIndex(entries, k)].ids

CountUnder(entries, k) ==
  IF entryIndex(entries, k) = 0 THEN 0 ELSE entries[entryIndex(entries, k)].n

KeysOf(entries) == { entries[i].k : i \in 1..Len(entries) }

\* the example lists and the histogram pass 1 keeps for field path F
KindExamplesKept(F) ==
  IF entryIndex(p1.fieldStats, F) = 0 THEN <<>> ELSE statOf(p1.fieldStats, F).kindExamples

KindsKept(F) ==
  IF entryIndex(p1.fieldStats, F) = 0 THEN <<>> ELSE statOf(p1.fieldStats, F).kinds

MismatchIssues ==
  IF "type_mismatches" \in DOMAIN report.issues THEN report.issues.type_mismatches ELSE <<>>

\* C22: for every field F and kind k the example id list kept for (F, k) is
\* exactly the ids of the first min(count_k(F), examplesPerIssue) scanned
\* documents, in scan order, in which F was observed with kind k; a
\* type-mismatch issue carries one such list per observed kind together with
\* the full kind histogram.
KindExamplesAreFirstSeen ==
  /\ \A F \in ScannedPaths :
        /\ KeysOf(KindExamplesKept(F)) = KindsAt(F)
        /\ KeysOf(KindsKept(F)) = KindsAt(F)
        /\ \A k \in KindsAt(F) :
              /\ ListUnder(KindExamplesKept(F), k)
                   = FirstOf(IdsOfKind(F, k), config.EXAMPLES_PER_ISSUE)
              /\ CountUnder(KindsKept(F), k) = Len(IdsOfKind(F, k))
  /\ pc = "done" =>
        \A i \in 1..Len(MismatchIssues) :
          LET issue == MismatchIssues[i]
              F == issue.field
          IN /\ F \in ScannedPaths
             /\ KeysOf(issue.kinds) = KindsAt(F)
             /\ KeysOf(issue.example_doc_ids_by_kind) = KindsAt(F)
             /\ \A k \in KindsAt(F) :
                   /\ CountUnder(issue.kinds, k) = Len(IdsOfKind(F, k))
                   /\ ListUnder(issue.example_doc_ids_by_kind, k)
                        = FirstOf(IdsOfKind(F, k), config.EXAMPLES_PER_ISSUE)

\* the fields run selected before pass 2
SelectedBeforePass2 == { expectedFields[i] : i \in 1..Len(expectedFields) }

\* the fields buildReport treats as expected
ExpectedInReport ==
  LET rows == reportExpectedFields(reportFields(p1.fieldStats, p1.totalDocs), config)
  IN { rows[i].field : i \in 1..Len(rows) }

\* C27: the set of fields selected as expected before pass 2 equals the set of
\* fields buildReport treats as expected, so every field with a missing-field
\* issue had its missing examples collected in pass 2.
ExpectedSetsAgree ==
  pc = "done" =>
    /\ SelectedBeforePass2 = ExpectedInReport
    /\ \A i \in 1..Len(MissingIssues) : MissingIssues[i].field \in SelectedBeforePass2

\* the documents the copy was to write: every document of the collection and,
\* with INCLUDE_SUBCOLLECTIONS, every descendant
ToCopy ==
  IF copyConfig.INCLUDE_SUBCOLLECTIONS THEN original ELSE { p \in original : Len(p) = 1 }

Deleted == original \ source

\* C24: with IS_DESTRUCTIVE a source document or subcollection descendant is
\* deleted only if the whole copy finished with zero errors, every batched write
\* was committed and the document's own copy was written to the destination;
\* with DRY_RUN nothing is written or deleted.
DeleteOnlyWhatWasCopied ==
  /\ \A p \in Deleted :
        /\ copyConfig.IS_DESTRUCTIVE
        /\ errorCount = 0
        /\ ToCopy \subseteq dest
        /\ p \in dest
  /\ copyConfig.DRY_RUN => dest = {} /\ source = original

\* how many documents a scan is to visit: min(limit, collection size)
ScanTarget ==
  IF config.SAMPLE_LIMIT.js = "number" /\ config.SAMPLE_LIMIT.n < Len(collection)
  THEN config.SAMPLE_LIMIT.n ELSE Len(collection)

IsPrefixOfCollection(seq) ==
  Len(seq) <= Len(collection) /\ seq = SubSeq(collection, 1, Len(seq))

Pass1Returned == pass = 2 \/ pc \in {"expected", "report", "done"}

Pass2Returned == pass = 2 /\ pc \in {"report", "done"}

ScanVisitsNow ==
  /\ IsPrefixOfCollection(handed[1])
  /\ IsPrefixOfCollection(handed[2])
  /\ Pass1Returned =>
        /\ handed[1] = FirstOf(collection, ScanTarget)
        /\ p1.totalDocs = docsScanned
        /\ docsScanned = ScanTarget
  /\ Pass2Returned => handed[2] = handed[1]

\* C28: on a collection that does not change, for any BATCH_SIZE >= 1 and any
\* sample limit, scanCollectionDocs terminates and calls its callback exactly
\* once for each of the first min(limit, size) documents in ascending id order,
\* also when the size is a multiple of BATCH_SIZE; pass 1 and pass 2 visit the
\* same documents and totalDocs = docsScanned.
ScanVisitsFirstDocsOnce == [](ScanVisitsNow) /\ <>(pc = "done")

\* the summary nodes of the fields whose only non-null kind is array, each
\* with its ArrayAggregate
ArrayNodes ==
  { [s |-> n.s, array |-> nonNullVariants(n.fa)[1].array] :
      n \in { m \in Nodes : /\ Len(nonNullVariants(m.fa)) = 1
                            /\ nonNullVariants(m.fa)[1].kind = "array" } }

====
